---- MODULE Spec2Model ----
(***************************************************************************)
(* A model of the disclaude conversation-turn orchestrator:                *)
(*   - ContextManager   (src/src/services/contextManager.ts): the          *)
(*     per-channel follow-up state and its deactivation timers;            *)
(*   - ClaudeService.generateResponse (src/src/services/claude.ts): one    *)
(*     logical model call with its bounded retries;                        *)
(*   - MessageHandler   (src/src/handlers/messageHandler.ts):              *)
(*     handleMessage, handleToolExecution and sendResponse.                *)
(*                                                                         *)
(* JavaScript runs each handler to its next await without interruption, so *)
(* one action of the model is one such segment: the resolution of the      *)
(* awaited call together with everything the code does up to the next      *)
(* await.  Several handleMessage turns may be in flight at once (the       *)
(* MessageCreate listener starts one per message and nothing serialises    *)
(* them); they interleave at these segment boundaries.                     *)
(***************************************************************************)
EXTENDS Integers, Sequences, FiniteSets, TLC

(***************************************************************************)
(* Bounds of the exploration (not program constants).                      *)
(***************************************************************************)
\* handleMessage turns that may be in flight at the same time
MaxTurns == 2
\* the clock stops advancing at this tick
MaxTime == 3
\* deactivation timers that may be pending at the same time
MaxTimers == 2
\* content blocks naming a tool in one model response
MaxTools == 2
\* chunks sendResponse may have to deliver for one answer
MaxChunks == 2
\* messages handed to trimMessagesToTokenLimit
MaxMessages == 4
\* the largest token budget (maxTokens) tried
MaxBudget == 30
\* the largest preserveLatest tried
MaxPreserve == 3
\* the longest response handed to sendResponse, in characters
MaxTextLen == 5
\* the largest character limit of one Discord message tried
MaxLimit == 3
\* fetchUrl calls that may be in flight at the same time
MaxFetches == 2
\* the largest followUpCount reached by direct calls of incrementFollowUpCount
MaxCount == 4

(***************************************************************************)
(* Program constants.                                                      *)
(***************************************************************************)
\* config.bot.followUpMessageCount (default '3')
FollowUpMessageCount == 3
\* config.bot.followUpTimeoutMs (default 30000 ms), in clock ticks of 15 s
FollowUpTimeoutTicks == 2
\* handleToolExecution's maxRounds parameter (default 5, never overridden)
MaxRounds == 5
\* generateResponse retries while retryCount < 3
MaxRetries == 3
\* the backoff of generateResponse: 1000 * 2^retryCount ms, at most 10000 ms
BackoffBaseMs == 1000
BackoffCapMs == 10000
\* countMessageTokens: the overhead per message and the estimate of an image
MessageOverheadTokens == 4
ImageTokens == 1500
\* UrlFetcher.cacheTimeout (15 * 60 * 1000 ms), in clock ticks; where the
\* fetcher is checked a tick of the clock is 7.5 minutes
CacheTimeoutTicks == 2

Turns == 1..MaxTurns
Channels == {"c1", "c2"}

VARIABLES
  now,              \* Date.now(), in ticks
  channelContexts,  \* ContextManager.channelContexts: channel -> ChannelContext
  timers,           \* the pending setTimeout callbacks of startMonitoring, in creation order
  turns,            \* the handleMessage invocations: their locals and position
  trim,             \* the context of a turn or a call of trimMessagesToTokenLimit: input and result
  send,             \* a call of MessageHandler.sendResponse: argument, chunks, messages sent
  fetcher,          \* UrlFetcher: its urlCache and the fetchUrl calls in flight
  managerCall       \* the last call of a ContextManager method made from outside a turn

vars == <<now, channelContexts, timers, turns, trim, send, fetcher, managerCall>>

(***************************************************************************)
(* Texts.  A text is a sequence of words; the fixed messages of the code   *)
(* are one-word texts.                                                     *)
(***************************************************************************)
Sentinel == "NO_RESPONSE"
CouldNotGenerateMsg == <<"I couldn't generate a response.">>
OverloadedMsg == <<"Sorry, Claude's servers are temporarily overloaded. Please try again in a moment.">>
RateLimitMsg == <<"Sorry, we're hitting rate limits. Please wait a moment before trying again.">>
TemporaryIssueMsg == <<"Sorry, there's a temporary issue with Claude's servers. Please try again later.">>
GenericErrorMsg == <<"Sorry, I encountered an error while processing your request.">>
UnexpectedFormatMsg == <<"I encountered an unexpected response format.">>
AfterToolsErrorMsg == <<"I encountered an error after multiple tool uses.">>

\* what the model may write in the text blocks of one response (joined)
ModelTexts == {<<>>, <<"hi">>, <<Sentinel>>, <<"hi", Sentinel>>}

\* String.prototype.includes, on words
Includes(text, word) == \E i \in 1..Len(text) : text[i] = word

(***************************************************************************)
(* ContextManager                                                          *)
(***************************************************************************)
\* channelContexts.get(channelId) === undefined
NoContext ==
  [exists |-> FALSE, lastResponseTime |-> 0, followUpCount |-> 0, isMonitoring |-> FALSE]

StartMonitoring(ctxs, channelId, time) ==
  [ctxs EXCEPT ![channelId] =
     [exists |-> TRUE, lastResponseTime |-> time, followUpCount |-> 0, isMonitoring |-> TRUE]]

\* the setTimeout of startMonitoring: one more pending callback, never cancelled
ScheduleStop(ts, channelId, time) ==
  Append(ts, [channelId |-> channelId, due |-> time + FollowUpTimeoutTicks])

StopMonitoringUnlessResponded(ctxs, channelId) ==
  IF ctxs[channelId].exists /\ ctxs[channelId].followUpCount = 0
  THEN [ctxs EXCEPT ![channelId].isMonitoring = FALSE]
  ELSE ctxs
StopMonitoring(ctxs, channelId) ==
  IF ctxs[channelId].exists
  THEN [ctxs EXCEPT ![channelId].isMonitoring = FALSE]
  ELSE ctxs

IsMonitoringChannel(ctxs, channelId) ==
  ctxs[channelId].exists /\ ctxs[channelId].isMonitoring

ShouldRespondCapMutant(count) == count > FollowUpMessageCount
\* the comparison of shouldRespond: the follow-up count has been reached
FollowUpCapReached(count) == count >= FollowUpMessageCount

\* the value shouldRespond returns
ShouldRespond(ctxs, channelId) ==
  IF ~ctxs[channelId].exists \/ ~ctxs[channelId].isMonitoring THEN FALSE
  ELSE IF FollowUpCapReached(ctxs[channelId].followUpCount) THEN FALSE
  ELSE TRUE

ShouldRespondEffectResetting(ctxs, channelId) ==
  IF ~ctxs[channelId].exists \/ ~ctxs[channelId].isMonitoring THEN ctxs
  ELSE IF FollowUpCapReached(ctxs[channelId].followUpCount)
       THEN [ctxs EXCEPT ![channelId].isMonitoring = FALSE, ![channelId].followUpCount = 0]
       ELSE ctxs
\* the map after shouldRespond: it stops monitoring when the count is reached
ShouldRespondEffect(ctxs, channelId) ==
  IF ~ctxs[channelId].exists \/ ~ctxs[channelId].isMonitoring THEN ctxs
  ELSE IF FollowUpCapReached(ctxs[channelId].followUpCount)
       THEN StopMonitoring(ctxs, channelId)
       ELSE ctxs

IncrementFollowUpCountReactivating(ctxs, channelId, time) ==
  IF ctxs[channelId].exists
  THEN [ctxs EXCEPT ![channelId].followUpCount = @ + 1,
                    ![channelId].lastResponseTime = time,
                    ![channelId].isMonitoring = TRUE]
  ELSE ctxs
IncrementFollowUpCount(ctxs, channelId, time) ==
  IF ctxs[channelId].exists
  THEN [ctxs EXCEPT ![channelId].followUpCount = @ + 1,
                    ![channelId].lastResponseTime = time]
  ELSE ctxs

ResetFollowUpCountEverywhere(ctxs, channelId) ==
  IF ctxs[channelId].exists
  THEN [c \in Channels |-> [ctxs[c] EXCEPT !.followUpCount = 0]]
  ELSE ctxs
ResetFollowUpCount(ctxs, channelId) ==
  IF ctxs[channelId].exists
  THEN [ctxs EXCEPT ![channelId].followUpCount = 0]
  ELSE ctxs

(***************************************************************************)
(* ClaudeService.generateResponse                                          *)
(***************************************************************************)
\* the custom tools handleToolExecution has a branch for
HandledTools == {"read_source_code", "fetch_url", "read_discord_messages"}
\* the names a tool_use block of a response may carry
BlockNames == HandledTools \cup {"web_search", "other_tool"}
ErrorStatuses == {0, 400, 429, 500, 502, 503, 529}

SeqsUpTo(S, n) == UNION {[1..k -> S] : k \in 0..n}

\* what anthropic.messages.create may resolve to
SuccessOutcomes ==
  [ok : {TRUE}, text : ModelTexts, names : SeqsUpTo(BlockNames, MaxTools),
   status : {0}, overloaded : {FALSE}, retryHeader : {FALSE}]
\* what it may reject with: error.status (0: none), error.message includes
\* "Overloaded", the x-should-retry header
ErrorOutcomes ==
  [ok : {FALSE}, text : {<<>>}, names : {<<>>},
   status : ErrorStatuses, overloaded : BOOLEAN, retryHeader : BOOLEAN]
ApiOutcomes == SuccessOutcomes \cup ErrorOutcomes

\* the error of an attempt (failed = FALSE: the attempt has not failed)
NoFailure == [failed |-> FALSE, status |-> 0, overloaded |-> FALSE, retryHeader |-> FALSE]
Failure(o) ==
  IF o.ok THEN NoFailure
  ELSE [failed |-> TRUE, status |-> o.status, overloaded |-> o.overloaded,
        retryHeader |-> o.retryHeader]
\* what is known of the generateResponse call whose text the handler holds:
\* the attempts it made, the delays it waited, the error it ended on
NoCall == [attempts |-> 0, waits |-> <<>>, failure |-> NoFailure]

\* the values generateResponse returns
NoResponse == [kind |-> "none", text |-> <<>>, toolCalls |-> <<>>]
TextResult(text) == [kind |-> "text", text |-> text, toolCalls |-> <<>>]
ToolsResult(calls) == [kind |-> "tools", text |-> <<>>, toolCalls |-> calls]

\* the tool_use blocks of a response; the model assigns the ids
ToolUseBlocks(names) == [i \in 1..Len(names) |-> [id |-> i, name |-> names[i]]]
CustomToolBlocks(blocks) == SelectSeq(blocks, LAMBDA b : b.name # "web_search")

ToolsRequestedIgnoringFlag(custom, enableTools) == Len(custom) > 0
ToolsRequested(custom, enableTools) == Len(custom) > 0 /\ enableTools

GenerateResponseSuccess(o, enableTools) ==
  LET custom == CustomToolBlocks(ToolUseBlocks(o.names))
  IN  IF ToolsRequested(custom, enableTools)
      THEN ToolsResult(custom)
      ELSE TextResult(IF o.text = <<>> THEN CouldNotGenerateMsg ELSE o.text)

IsRetryable(o) ==
  o.status \in {500, 502, 503, 529} \/ o.overloaded \/ o.retryHeader
ShouldRetryOnAnyError(o, retryCount) == retryCount < MaxRetries
ShouldRetryOnceMore(o, retryCount) == IsRetryable(o) /\ retryCount <= MaxRetries
ShouldRetry(o, retryCount) == IsRetryable(o) /\ retryCount < MaxRetries

Min(a, b) == IF a <= b THEN a ELSE b
BackoffDelayFixed(retryCount) == BackoffBaseMs
BackoffDelay(retryCount) == Min(BackoffBaseMs * 2^retryCount, BackoffCapMs)

ErrorMessage(o) ==
  IF o.status = 500 \/ o.overloaded THEN OverloadedMsg
  ELSE IF o.status = 429 THEN RateLimitMsg
  ELSE IF o.status >= 500 THEN TemporaryIssueMsg
  ELSE GenericErrorMsg

\* the value one attempt makes generateResponse return, when it does not retry
GenerateResponseReturn(o, enableTools) ==
  IF o.ok THEN GenerateResponseSuccess(o, enableTools)
  ELSE TextResult(ErrorMessage(o))

(***************************************************************************)
(* MessageHandler: the locals of one handleMessage invocation              *)
(***************************************************************************)
IdleTurn ==
  [pc |-> "idle", channel |-> "none", fromBot |-> FALSE, isMentioned |-> FALSE,
   isMonitoring |-> FALSE,
   emptyContext |-> FALSE, phase |-> "none", enableTools |-> FALSE,
   retryCount |-> 0, delay |-> 0, waits |-> <<>>, failure |-> NoFailure,
   lastCall |-> NoCall, modelCalls |-> 0,
   response |-> NoResponse, roundCount |-> 0, toolIdx |-> 0, toolResults |-> <<>>,
   appended |-> <<>>, answer |-> <<>>,
   incremented |-> FALSE, sentAny |-> FALSE, delivered |-> 0, outcome |-> "none"]

InFlight(tr) == tr.pc \notin {"idle", "done"}

\* no invocation has just settled (a settled one is forgotten at once: its
\* record only shows how it ended)
NoneSettled == \A u \in Turns : turns[u].pc # "done"

\* handleMessage has returned (or rejected): what the invocation did is kept
Finish(tr, outcome) ==
  [IdleTurn EXCEPT !.pc = "done", !.channel = tr.channel, !.fromBot = tr.fromBot,
                   !.isMentioned = tr.isMentioned, !.isMonitoring = tr.isMonitoring,
                   !.modelCalls = tr.modelCalls,
                   !.incremented = tr.incremented, !.sentAny = tr.sentAny,
                   !.delivered = tr.delivered, !.outcome = outcome]

\* the locals of handleToolExecution and of the context building go out of scope
OutOfScope(tr) ==
  [tr EXCEPT !.emptyContext = FALSE, !.phase = "none", !.enableTools = FALSE,
             !.retryCount = 0, !.delay = 0, !.waits = <<>>, !.failure = NoFailure,
             !.response = NoResponse,
             !.roundCount = 0, !.toolIdx = 0, !.toolResults = <<>>, !.appended = <<>>]

CatchSwallowing(tr) == Finish(tr, "failed")
\* the catch of handleMessage: it awaits message.reply(apology)
Catch(tr) ==
  [OutOfScope(tr) EXCEPT !.pc = "apology", !.answer = <<>>, !.lastCall = NoCall]

\* a call of generateResponse (a logical model call)
CallModel(tr, phase, enableTools) ==
  [tr EXCEPT !.pc = "model", !.phase = phase, !.enableTools = enableTools,
             !.retryCount = 0, !.delay = 0, !.waits = <<>>, !.failure = NoFailure,
             !.modelCalls = @ + 1]

\* sendResponse starts: it awaits message.reply of the first chunk
BeginSend(tr, text) == [OutOfScope(tr) EXCEPT !.pc = "send", !.answer = text]

(***************************************************************************)
(* MessageHandler.handleToolExecution                                      *)
(***************************************************************************)
LoopContinuesOffByOne(roundCount) == roundCount <= MaxRounds
\* while (roundCount < maxRounds)
LoopContinues(roundCount) == roundCount < MaxRounds

\* the two messages pushed after the tool calls of a round; then the
\* "Thinking..." message is awaited
ToolResultContentReversed(results) ==
  [i \in 1..Len(results) |->
     [type |-> "tool_result", tool_use_id |-> results[Len(results) + 1 - i].tool_use_id,
      isError |-> results[Len(results) + 1 - i].isError]]
\* toolResults.map(...): one tool_result block per result, in the order of
\* toolResults (isError: the content is the error text, not the payload)
ToolResultContent(results) ==
  [i \in 1..Len(results) |->
     [type |-> "tool_result", tool_use_id |-> results[i].tool_use_id,
      isError |-> results[i].isError]]

EndRoundResultsFirst(tr) ==
  [tr EXCEPT !.appended = @ \o
               <<[role |-> "user", kind |-> "tool_result",
                  content |-> ToolResultContent(tr.toolResults)],
                 [role |-> "assistant", kind |-> "tool_use",
                  content |-> tr.response.toolCalls]>>,
             !.toolIdx = 0, !.pc = "thinking"]
EndRound(tr) ==
  [tr EXCEPT !.appended = @ \o
               <<[role |-> "assistant", kind |-> "tool_use",
                  content |-> tr.response.toolCalls],
                 [role |-> "user", kind |-> "tool_result",
                  content |-> ToolResultContent(tr.toolResults)]>>,
             !.toolIdx = 0, !.pc = "thinking"]

\* the for loop over toolCalls from index `from`: a call whose name has no
\* branch is passed over without an await and without a result
NextToolCall(tr, from) ==
  LET calls == tr.response.toolCalls
      handled == {i \in from..Len(calls) : calls[i].name \in HandledTools}
  IN  IF handled = {} THEN EndRound(tr)
      ELSE [tr EXCEPT !.pc = "tool",
                      !.toolIdx = CHOOSE i \in handled : \A j \in handled : i <= j]

\* once passed to generateResponse, the messages pushed are never read again
\* by the handler: they are kept by role and kind
Earlier(msgs) ==
  [i \in 1..Len(msgs) |-> [role |-> msgs[i].role, kind |-> msgs[i].kind, content |-> <<>>]]

BeginRound(tr) ==
  NextToolCall([tr EXCEPT !.roundCount = @ + 1, !.toolResults = <<>>,
                          !.lastCall = NoCall], 1)

\* the forced final call, tools disabled
ForceFinal(tr) == CallModel(tr, "final", FALSE)

\* the head of the while loop, with currentResponse = tr.response
HandleToolExecutionLoop(tr) ==
  IF LoopContinues(tr.roundCount)
  THEN IF tr.response.kind = "text" THEN BeginSend(tr, tr.response.text)
       ELSE IF tr.response.kind = "tools" THEN BeginRound(tr)
       ELSE BeginSend(tr, UnexpectedFormatMsg)
  ELSE ForceFinal(tr)

\* the return of the forced final call
FinalAnswer(r) == IF r.kind = "text" THEN r.text ELSE AfterToolsErrorMsg

(***************************************************************************)
(* MessageHandler.handleMessage                                            *)
(***************************************************************************)
MentionActivateKeepingCount(ctxs, channelId, time) ==
  IF ctxs[channelId].exists
  THEN [ctxs EXCEPT ![channelId].isMonitoring = TRUE,
                    ![channelId].lastResponseTime = time]
  ELSE StartMonitoring(ctxs, channelId, time)
\* if (isMentioned): resetFollowUpCount, then startMonitoring
MentionActivate(ctxs, channelId, time) ==
  StartMonitoring(ResetFollowUpCount(ctxs, channelId), channelId, time)

\* isMonitoring && !isMentioned: the follow-up branch
IsFollowUp(tr) == tr.isMonitoring /\ ~tr.isMentioned

IsOwnMessageNever(fromBot) == FALSE
\* message.author.id === this.botId
IsOwnMessage(fromBot) == fromBot

\* A message arrives: handleMessage runs up to its first await (sendTyping),
\* or returns before it.
Start(t, channelId, fromBot, isMentioned) ==
  /\ NoneSettled
  /\ turns[t].pc = "idle"
  /\ LET isMonitoring == IsMonitoringChannel(channelContexts, channelId)
         tr == [IdleTurn EXCEPT !.channel = channelId, !.fromBot = fromBot,
                                !.isMentioned = isMentioned,
                                !.isMonitoring = isMonitoring]
     IN  IF IsOwnMessage(fromBot)
         THEN /\ turns' = [turns EXCEPT ![t] = Finish(tr, "own")]
              /\ UNCHANGED <<channelContexts, timers>>
         ELSE IF ~isMentioned /\ ~isMonitoring
         THEN /\ turns' = [turns EXCEPT ![t] = Finish(tr, "unmonitored")]
              /\ UNCHANGED <<channelContexts, timers>>
         ELSE IF isMentioned
         THEN /\ Len(timers) < MaxTimers
              /\ channelContexts' = MentionActivate(channelContexts, channelId, now)
              /\ timers' = ScheduleStop(timers, channelId, now)
              /\ turns' = [turns EXCEPT ![t] = [tr EXCEPT !.pc = "typing"]]
         ELSE /\ channelContexts' = ShouldRespondEffect(channelContexts, channelId)
              /\ turns' = [turns EXCEPT ![t] =
                             IF ShouldRespond(channelContexts, channelId)
                             THEN [tr EXCEPT !.pc = "typing"]
                             ELSE Finish(tr, "rejected")]
              /\ UNCHANGED timers
  /\ UNCHANGED <<now, trim, send, fetcher, managerCall>>

\* sendTyping resolves, and getMessageContext is awaited; or it rejects
TypingDone(t, ok) ==
  /\ NoneSettled
  /\ turns[t].pc = "typing"
  /\ turns' = [turns EXCEPT ![t] =
                 IF ok THEN [@ EXCEPT !.pc = "context"] ELSE Catch(@)]
  /\ UNCHANGED <<now, channelContexts, timers, trim, send, fetcher, managerCall>>

\* channel.messages.fetch resolves, or rejects and getMessageContext returns
\* the empty collection; then the images and the most recent URL are awaited
ContextDone(t, ok) ==
  /\ NoneSettled
  /\ turns[t].pc = "context"
  /\ turns' = [turns EXCEPT ![t] = [@ EXCEPT !.pc = "prepare", !.emptyContext = ~ok]]
  /\ UNCHANGED <<now, channelContexts, timers, trim, send, fetcher, managerCall>>

\* the context is formatted and trimmed, the URL content fetched (none of
\* these throws); in the follow-up branch lastMessage.content is read, which
\* throws on an empty context; then the first model call is made
PrepareDone(t) ==
  /\ NoneSettled
  /\ turns[t].pc = "prepare"
  /\ turns' = [turns EXCEPT ![t] =
                 IF IsFollowUp(@) /\ @.emptyContext THEN Catch(@)
                 ELSE CallModel(@, "initial", TRUE)]
  /\ UNCHANGED <<now, channelContexts, timers, trim, send, fetcher, managerCall>>

DeclinesOnExactSentinel(r) == r.kind = "text" /\ r.text = <<Sentinel>>
\* the first response is a string holding the sentinel
Declines(r) == r.kind = "text" /\ Includes(r.text, Sentinel)

\* generateResponse returns r to handleMessage (phase "initial"), to the
\* loop of handleToolExecution ("round") or to its forced final call ("final")
Return(t, r, f) ==
  LET tr == [turns[t] EXCEPT
               !.lastCall = [attempts |-> turns[t].retryCount + 1,
                             waits |-> turns[t].waits, failure |-> f],
               !.retryCount = 0, !.delay = 0, !.waits = <<>>, !.failure = NoFailure]
  IN  CASE tr.phase = "initial" ->
             IF IsFollowUp(tr) /\ Declines(r)
             THEN /\ turns' = [turns EXCEPT ![t] = Finish(tr, "declined")]
                  /\ UNCHANGED channelContexts
             ELSE /\ channelContexts' =
                       IF IsFollowUp(tr)
                       THEN IncrementFollowUpCount(channelContexts, tr.channel, now)
                       ELSE channelContexts
                  /\ turns' = [turns EXCEPT ![t] =
                       HandleToolExecutionLoop(
                         [tr EXCEPT !.response = r, !.incremented = IsFollowUp(tr)])]
        [] tr.phase = "round" ->
             /\ turns' = [turns EXCEPT ![t] =
                            HandleToolExecutionLoop([tr EXCEPT !.response = r])]
             /\ UNCHANGED channelContexts
        [] OTHER ->
             /\ turns' = [turns EXCEPT ![t] = BeginSend(tr, FinalAnswer(r))]
             /\ UNCHANGED channelContexts

\* one attempt of anthropic.messages.create settles
ApiResolve(t, o) ==
  /\ NoneSettled
  /\ turns[t].pc = "model"
  /\ IF ~o.ok /\ ShouldRetry(o, turns[t].retryCount)
     THEN /\ turns' = [turns EXCEPT ![t] =
                         [@ EXCEPT !.pc = "backoff",
                                   !.delay = BackoffDelay(turns[t].retryCount),
                                   !.waits = Append(@, BackoffDelay(turns[t].retryCount)),
                                   !.failure = Failure(o)]]
          /\ UNCHANGED channelContexts
     ELSE LET r == GenerateResponseReturn(o, turns[t].enableTools)
          IN  Return(t, r, Failure(o))
  /\ UNCHANGED <<now, timers, trim, send, fetcher, managerCall>>

\* the backoff delay has passed: generateResponse calls itself, retryCount + 1
BackoffDone(t) ==
  /\ NoneSettled
  /\ turns[t].pc = "backoff"
  /\ turns' = [turns EXCEPT ![t] =
                 [@ EXCEPT !.pc = "model", !.retryCount = @ + 1, !.delay = 0,
                           !.failure = NoFailure]]
  /\ UNCHANGED <<now, channelContexts, timers, trim, send, fetcher, managerCall>>

ToolOutcomes == {"ok", "error", "abort"}

\* One tool call of the round, from its status message to its result:
\*   ok     the try block ran through (a status message was sent);
\*   error  something in the try block threw and the catch block ran
\*          through: it edited the status message, or sent the failure notice;
\*   abort  the catch block's own edit or send threw: handleToolExecution
\*          rejects and the catch of handleMessage takes over.
ToolStep(t, o, statusSent) ==
  /\ NoneSettled
  /\ turns[t].pc = "tool"
  /\ o # "abort" => statusSent
  /\ LET tr == turns[t]
         call == tr.response.toolCalls[tr.toolIdx]
     IN  turns' = [turns EXCEPT ![t] =
           IF o = "abort"
           THEN Catch([tr EXCEPT !.sentAny = @ \/ statusSent])
           ELSE NextToolCall(
                  [tr EXCEPT !.sentAny = TRUE,
                             !.toolResults = Append(@, [tool_use_id |-> call.id,
                                                         isError |-> (o = "error")])],
                  tr.toolIdx + 1)]
  /\ UNCHANGED <<now, channelContexts, timers, trim, send, fetcher, managerCall>>

\* the "Thinking..." message is sent and the model is called again with
\* tools enabled; or the send throws
ThinkingDone(t, ok) ==
  /\ NoneSettled
  /\ turns[t].pc = "thinking"
  /\ turns' = [turns EXCEPT ![t] =
                 IF ok
                 THEN CallModel([@ EXCEPT !.sentAny = TRUE, !.toolResults = <<>>,
                                          !.appended = Earlier(@)],
                                "round", TRUE)
                 ELSE Catch(@)]
  /\ UNCHANGED <<now, channelContexts, timers, trim, send, fetcher, managerCall>>

\* the fixed messages fit one Discord message
FitsOneMessage(text) ==
  text \in {CouldNotGenerateMsg, OverloadedMsg, RateLimitMsg, TemporaryIssueMsg,
            GenericErrorMsg, UnexpectedFormatMsg, AfterToolsErrorMsg}

\* sendResponse: message.reply of the first chunk, channel.send of the next
\* ones; `more` says whether the text has a further chunk
SendChunk(t, ok, more) ==
  /\ NoneSettled
  /\ turns[t].pc = "send"
  /\ more => (ok /\ ~FitsOneMessage(turns[t].answer))
  /\ turns' = [turns EXCEPT ![t] =
                 IF ~ok THEN Catch(@)
                 ELSE IF more /\ @.delivered + 1 < MaxChunks
                 THEN [@ EXCEPT !.delivered = @ + 1, !.sentAny = TRUE]
                 ELSE Finish([@ EXCEPT !.delivered = @ + 1, !.sentAny = TRUE], "answered")]
  /\ UNCHANGED <<now, channelContexts, timers, trim, send, fetcher, managerCall>>

\* the message.reply of the catch block settles; when it rejects,
\* handleMessage rejects
ApologyDone(t, ok) ==
  /\ NoneSettled
  /\ turns[t].pc = "apology"
  /\ turns' = [turns EXCEPT ![t] =
                 IF ok THEN Finish([@ EXCEPT !.sentAny = TRUE], "apologized")
                 ELSE Finish(@, "failed")]
  /\ UNCHANGED <<now, channelContexts, timers, trim, send, fetcher, managerCall>>

\* the settled invocation is gone
Forget(t) ==
  /\ turns[t].pc = "done"
  /\ turns' = [turns EXCEPT ![t] = IdleTurn]
  /\ UNCHANGED <<now, channelContexts, timers, trim, send, fetcher, managerCall>>

(***************************************************************************)
(* Time                                                                    *)
(***************************************************************************)
\* the callback of the oldest due setTimeout runs: stopMonitoring(channelId)
FireTimer ==
  /\ NoneSettled
  /\ timers # <<>>
  /\ Head(timers).due <= now
  /\ channelContexts' = StopMonitoring(channelContexts, Head(timers).channelId)
  /\ timers' = Tail(timers)
  /\ UNCHANGED <<now, turns, trim, send, fetcher, managerCall>>

\* the clock advances; a due callback runs before it advances again
Tick ==
  /\ NoneSettled
  /\ now < MaxTime
  /\ timers # <<>> => Head(timers).due > now
  /\ now' = now + 1
  /\ UNCHANGED <<channelContexts, timers, turns, trim, send, fetcher, managerCall>>

(***************************************************************************)
(* TokenCounter.  A text is the sequence of its tokens.                    *)
(***************************************************************************)
\* encoder.encode(text).length
CountTokens(text) == Len(text)

\* the tokens of the content blocks of a multimodal message
RECURSIVE CountBlockTokens(_)
CountBlockTokens(blocks) ==
  IF blocks = <<>> THEN 0
  ELSE (IF Head(blocks).type = "text" THEN CountTokens(Head(blocks).text)
        ELSE IF Head(blocks).type = "image" THEN ImageTokens
        ELSE 0) + CountBlockTokens(Tail(blocks))

RECURSIVE CountMessageTokens(_)
CountMessageTokens(messages) ==
  IF messages = <<>> THEN 0
  ELSE LET message == Head(messages)
       IN  MessageOverheadTokens + CountTokens(<<message.role>>)
             + (IF message.isString THEN CountTokens(message.content)
                ELSE CountBlockTokens(message.content))
             + CountMessageTokens(Tail(messages))

\* Array.prototype.slice(start, end)
SliceIndex(i, n) == IF i < 0 THEN (IF n + i < 0 THEN 0 ELSE n + i) ELSE (IF i > n THEN n ELSE i)
Slice(s, start, end) == SubSeq(s, SliceIndex(start, Len(s)) + 1, SliceIndex(end, Len(s)))

LatestMessagesOneShort(messages, preserveLatest) ==
  Slice(messages, -(preserveLatest - 1), Len(messages))
\* messages.slice(-preserveLatest)
LatestMessages(messages, preserveLatest) == Slice(messages, -preserveLatest, Len(messages))
\* messages.slice(0, -preserveLatest)
OlderMessages(messages, preserveLatest) == Slice(messages, 0, -preserveLatest)

RECURSIVE KeepOlderSkipping(_, _, _, _, _)
KeepOlderSkipping(olderMessages, i, currentTokens, maxTokens, trimmedMessages) ==
  IF i < 1 THEN trimmedMessages
  ELSE LET messageTokens == CountMessageTokens(<<olderMessages[i]>>)
       IN  IF currentTokens + messageTokens <= maxTokens
           THEN KeepOlderSkipping(olderMessages, i - 1, currentTokens + messageTokens,
                                  maxTokens, <<olderMessages[i]>> \o trimmedMessages)
           ELSE KeepOlderSkipping(olderMessages, i - 1, currentTokens, maxTokens,
                                  trimmedMessages)
RECURSIVE KeepOlderIgnoringCost(_, _, _, _, _)
KeepOlderIgnoringCost(olderMessages, i, currentTokens, maxTokens, trimmedMessages) ==
  IF i < 1 THEN trimmedMessages
  ELSE LET messageTokens == CountMessageTokens(<<olderMessages[i]>>)
       IN  IF currentTokens <= maxTokens
           THEN KeepOlderIgnoringCost(olderMessages, i - 1, currentTokens + messageTokens,
                                      maxTokens, <<olderMessages[i]>> \o trimmedMessages)
           ELSE trimmedMessages
\* the for loop from i (1-based) down to the oldest message, with its break
RECURSIVE KeepOlder(_, _, _, _, _)
KeepOlder(olderMessages, i, currentTokens, maxTokens, trimmedMessages) ==
  IF i < 1 THEN trimmedMessages
  ELSE LET messageTokens == CountMessageTokens(<<olderMessages[i]>>)
       IN  IF currentTokens + messageTokens <= maxTokens
           THEN KeepOlder(olderMessages, i - 1, currentTokens + messageTokens,
                          maxTokens, <<olderMessages[i]>> \o trimmedMessages)
           ELSE trimmedMessages

\* the note put in front when messages were skipped
ContextNoteOffByOne(skippedCount) ==
  [role |-> "user", isString |-> TRUE,
   content |-> <<"[Context", "Note:", skippedCount + 1, "earlier", "messages", "were",
                 "trimmed", "to", "fit", "token", "limit]">>]
ContextNote(skippedCount) ==
  [role |-> "user", isString |-> TRUE,
   content |-> <<"[Context", "Note:", skippedCount, "earlier", "messages", "were",
                 "trimmed", "to", "fit", "token", "limit]">>]

NoteNeededAlways(keptCount, olderCount) == keptCount <= olderCount
NoteNeeded(keptCount, olderCount) == keptCount < olderCount

TrimMessagesToTokenLimit(messages, maxTokens, preserveLatest) ==
  IF Len(messages) <= preserveLatest THEN messages
  ELSE LET latestMessages == LatestMessages(messages, preserveLatest)
           olderMessages == OlderMessages(messages, preserveLatest)
           trimmedMessages ==
             KeepOlder(olderMessages, Len(olderMessages),
                       CountMessageTokens(latestMessages), maxTokens, <<>>)
       IN  (IF NoteNeeded(Len(trimmedMessages), Len(olderMessages))
            THEN <<ContextNote(Len(olderMessages) - Len(trimmedMessages))>>
            ELSE <<>>) \o trimmedMessages \o latestMessages

\* the messages tried: a short user text, a longer assistant text, a user
\* message with a text block and an image block
SomeMessages ==
  { [role |-> "user", isString |-> TRUE, content |-> <<"a">>],
    [role |-> "assistant", isString |-> TRUE, content |-> <<"b", "c">>],
    [role |-> "user", isString |-> FALSE,
     content |-> <<[type |-> "text", text |-> <<"d">>], [type |-> "image", text |-> <<>>]>>] }

NoTrim == [pc |-> "none", history |-> <<>>, messages |-> <<>>, maxTokens |-> 0,
           preserveLatest |-> 0, result |-> <<>>]
\* the arguments tried; preserveLatest is positive in every call the program
\* makes (its default is 5, the handler passes 10)
TrimInputs ==
  {[pc |-> "input", history |-> <<>>, messages |-> m, maxTokens |-> b,
    preserveLatest |-> k, result |-> <<>>] :
     m \in SeqsUpTo(SomeMessages, MaxMessages), b \in 0..MaxBudget, k \in 1..MaxPreserve}

\* trimMessagesToTokenLimit is applied to the arguments
TrimMessages ==
  /\ trim.pc = "input"
  /\ trim' = [trim EXCEPT !.pc = "trimmed",
                !.result = TrimMessagesToTokenLimit(trim.messages, trim.maxTokens,
                                                    trim.preserveLatest)]
  /\ UNCHANGED <<now, channelContexts, timers, turns, send, fetcher, managerCall>>

\* it is applied again, to its own result
TrimAgain ==
  /\ trim.pc = "trimmed"
  /\ trim' = [trim EXCEPT !.pc = "again", !.messages = trim.result,
                !.result = TrimMessagesToTokenLimit(trim.result, trim.maxTokens,
                                                    trim.preserveLatest)]
  /\ UNCHANGED <<now, channelContexts, timers, turns, send, fetcher, managerCall>>

(***************************************************************************)
(* MessageHandler.sendResponse and splitMessage.  A text is a sequence of  *)
(* characters.  DISCORD_CHAR_LIMIT is 2000; splitMessage takes the limit   *)
(* as its maxLength parameter, and the model runs it with limits from 1 to *)
(* MaxLimit.                                                               *)
(***************************************************************************)
\* the characters tried: a letter, the two characters splitMessage looks
\* for, and a whitespace character it does not look for
Chars == {"a", " ", "\n", "\t"}
\* remaining[i] === " " || remaining[i] === "\n"
IsBoundary(c) == c \in {" ", "\n"}
\* the characters String.prototype.trim removes
IsWhitespace(c) == c \in {" ", "\n", "\t"}

RECURSIVE TrimStart(_)
TrimStart(s) == IF s # <<>> /\ IsWhitespace(Head(s)) THEN TrimStart(Tail(s)) ELSE s
RECURSIVE TrimEnd(_)
TrimEnd(s) ==
  IF s # <<>> /\ IsWhitespace(s[Len(s)]) THEN TrimEnd(SubSeq(s, 1, Len(s) - 1)) ELSE s
\* String.prototype.trim: whitespace is removed at both ends
StringTrim(s) == TrimEnd(TrimStart(s))

Max(S) == CHOOSE x \in S : \A y \in S : y <= x

\* the for loop of splitMessage over a text longer than maxLength: i runs
\* from maxLength - 1 down to 1 over 0-based indices, that is over the
\* characters 2..maxLength, and splitAt = i + 1 is the number of characters
\* up to and including the one found
SplitAtPastLimit(remaining, maxLength) ==
  LET found == {p \in 2..(maxLength + 1) : IsBoundary(remaining[p])}
  IN  IF found = {} THEN maxLength ELSE Max(found)
SplitAtFirstBoundary(remaining, maxLength) ==
  LET found == {p \in 2..maxLength : IsBoundary(remaining[p])}
  IN  IF found = {} THEN maxLength ELSE CHOOSE x \in found : \A y \in found : x <= y
SplitAtBeforeBoundary(remaining, maxLength) ==
  LET found == {p \in 1..maxLength : IsBoundary(remaining[p])}
  IN  IF found = {} THEN maxLength ELSE Max(found) - 1
SplitAt(remaining, maxLength) ==
  LET found == {p \in 2..maxLength : IsBoundary(remaining[p])}
  IN  IF found = {} THEN maxLength ELSE Max(found)

\* the while loop of splitMessage: its iterations, each with the text it
\* started from and the chunk it pushed
RECURSIVE SplitIterations(_, _, _)
SplitIterations(remaining, maxLength, iterations) ==
  IF Len(remaining) = 0 THEN iterations
  ELSE IF Len(remaining) <= maxLength
  THEN Append(iterations, [remaining |-> remaining, chunk |-> remaining])
  ELSE LET splitAt == SplitAt(remaining, maxLength)
       IN  SplitIterations(StringTrim(SubSeq(remaining, splitAt + 1, Len(remaining))),
                           maxLength,
                           Append(iterations, [remaining |-> remaining,
                                               chunk |-> SubSeq(remaining, 1, splitAt)]))

SplitMessage(text, maxLength) ==
  LET iterations == SplitIterations(text, maxLength, <<>>)
  IN  [i \in 1..Len(iterations) |-> iterations[i].chunk]

NoSend == [pc |-> "none", response |-> <<>>, maxLength |-> 0, chunks |-> <<>>, sent |-> <<>>]
\* the calls tried: a non-empty response and a limit
SendInputs ==
  {[pc |-> "start", response |-> r, maxLength |-> l, chunks |-> <<>>, sent |-> <<>>] :
     r \in SeqsUpTo(Chars, MaxTextLen) \ {<<>>}, l \in 1..MaxLimit}

\* sendResponse up to its first await: a response within the limit is
\* replied whole, a longer one is split
SendResponse ==
  /\ send.pc = "start"
  /\ send' = [send EXCEPT !.pc = "reply",
                !.chunks = IF Len(send.response) <= send.maxLength THEN <<>>
                           ELSE SplitMessage(send.response, send.maxLength)]
  /\ UNCHANGED <<now, channelContexts, timers, turns, trim, fetcher, managerCall>>

\* message.reply of the response, or of chunks[0], settles
Reply(ok) ==
  /\ send.pc = "reply"
  /\ send' = IF ~ok THEN [send EXCEPT !.pc = "threw"]
             ELSE [send EXCEPT
                     !.sent = <<[via |-> "reply",
                                 content |-> IF send.chunks = <<>> THEN send.response
                                             ELSE send.chunks[1]]>>,
                     !.pc = IF Len(send.chunks) > 1 THEN "send" ELSE "done"]
  /\ UNCHANGED <<now, channelContexts, timers, turns, trim, fetcher, managerCall>>

\* the chunk the for loop of sendResponse sends next (i starts at 1 and the
\* model's sequences at 1, so it is the chunk after those sent)
ChunkIndexFromFirst(sent) == Len(sent)
ChunkIndex(sent) == Len(sent) + 1

\* message.channel.send of the next chunk settles (the channel of a message
\* the bot handles is text-based: "send" in message.channel holds)
ChannelSend(ok) ==
  /\ send.pc = "send"
  /\ send' = IF ~ok THEN [send EXCEPT !.pc = "threw"]
             ELSE [send EXCEPT
                     !.sent = Append(@, [via |-> "send",
                                         content |-> send.chunks[ChunkIndex(send.sent)]]),
                     !.pc = IF ChunkIndex(send.sent) < Len(send.chunks) THEN "send"
                            ELSE "done"]
  /\ UNCHANGED <<now, channelContexts, timers, turns, trim, fetcher, managerCall>>

(***************************************************************************)
(* The context of a turn: the fetched channel history is formatted and, if *)
(* over the token budget, trimmed (handleMessage), and the list is passed  *)
(* to generateResponse, which hands it to the API one entry per message.   *)
(***************************************************************************)
\* the Discord messages tried: a user text, a text of the bot, a user text
\* with an image attachment, a user message with neither
DiscordMessages ==
  { [fromBot |-> FALSE, content |-> <<"a">>, image |-> FALSE],
    [fromBot |-> TRUE, content |-> <<"b", "c">>, image |-> FALSE],
    [fromBot |-> FALSE, content |-> <<"d">>, image |-> TRUE],
    [fromBot |-> FALSE, content |-> <<>>, image |-> FALSE] }

\* msg.author.id === botId ? "assistant" : "user"
RoleOf(msg) == IF msg.fromBot THEN "assistant" ELSE "user"

FormatDiscordMessages(messages) ==
  [i \in 1..Len(messages) |->
     [role |-> RoleOf(messages[i]), isString |-> TRUE, content |-> messages[i].content]]

\* the content blocks of one message: its text if it has one, its image
\* (the case in which the image is downloaded and encoded)
ContentBlocks(msg) ==
  (IF msg.content # <<>> THEN <<[type |-> "text", text |-> msg.content]>> ELSE <<>>)
    \o (IF msg.image THEN <<[type |-> "image", text |-> <<>>]>> ELSE <<>>)

\* a message without content is left out; a single text block is passed as
\* a string
RECURSIVE FormatDiscordMessagesWithImages(_)
FormatDiscordMessagesWithImages(messages) ==
  IF messages = <<>> THEN <<>>
  ELSE LET msg == Head(messages)
           content == ContentBlocks(msg)
           rest == FormatDiscordMessagesWithImages(Tail(messages))
       IN  IF content = <<>> THEN rest
           ELSE IF Len(content) = 1 /\ content[1].type = "text"
           THEN <<[role |-> RoleOf(msg), isString |-> TRUE, content |-> content[1].text]>>
                  \o rest
           ELSE <<[role |-> RoleOf(msg), isString |-> FALSE, content |-> content]>> \o rest

HasImages(messages) == \E i \in 1..Len(messages) : messages[i].image

\* the histories getMessageContext may return (the empty one when the
\* fetch fails), with the budget and the preserveLatest of the trim
ContextInputs ==
  {[pc |-> "history", history |-> h, messages |-> <<>>, maxTokens |-> b,
    preserveLatest |-> k, result |-> <<>>] :
     h \in SeqsUpTo(DiscordMessages, MaxMessages), b \in 0..MaxBudget, k \in 1..MaxPreserve}

\* handleMessage formats the history
FormatContext ==
  /\ trim.pc = "history"
  /\ trim' = [trim EXCEPT !.pc = "input",
                !.messages = IF HasImages(trim.history)
                             THEN FormatDiscordMessagesWithImages(trim.history)
                             ELSE FormatDiscordMessages(trim.history)]
  /\ UNCHANGED <<now, channelContexts, timers, turns, send, fetcher, managerCall>>

\* handleMessage trims the list if its token count is over the budget; the
\* result is the list generateResponse passes to the API
PassContext ==
  /\ trim.pc = "input"
  /\ trim' = [trim EXCEPT !.pc = "passed",
                !.result = IF CountMessageTokens(trim.messages) > trim.maxTokens
                           THEN TrimMessagesToTokenLimit(trim.messages, trim.maxTokens,
                                                         trim.preserveLatest)
                           ELSE trim.messages]
  /\ UNCHANGED <<now, channelContexts, timers, turns, send, fetcher, managerCall>>

(***************************************************************************)
(* UrlFetcher (src/src/services/urlFetcher.ts): fetchUrl and its cache.    *)
(***************************************************************************)
Urls == {"u1", "u2"}
Fetches == 1..MaxFetches
\* what a URL may serve
Contents == {"v1", "v2"}
\* how the request of fetchUrl may end: a body of one of the three content
\* types handled, a non-OK status, another content type, the 10 s timeout
\* (AbortError), any other exception
CachedKinds == {"html", "plain", "json"}
FailedKinds == {"notOk", "unsupported", "timeout", "error"}
FetchOutcomes ==
  [kind : CachedKinds, content : Contents] \cup [kind : FailedKinds, content : {"none"}]

NoEntry == [exists |-> FALSE, content |-> "none", timestamp |-> 0]
NoFetch == [pc |-> "idle", url |-> "none", requested |-> FALSE, ok |-> FALSE,
            content |-> "none"]
NoFetcher == [urlCache |-> [u \in Urls |-> NoEntry], calls |-> [k \in Fetches |-> NoFetch]]

\* cached && Date.now() - cached.timestamp < this.cacheTimeout
CacheFreshInclusive(entry, time) ==
  entry.exists /\ time - entry.timestamp <= CacheTimeoutTicks
CacheFresh(entry, time) ==
  entry.exists /\ time - entry.timestamp < CacheTimeoutTicks

\* no call has just returned (a returned call is forgotten at once: its
\* record only shows what it returned)
NoneReturned == \A k \in Fetches : fetcher.calls[k].pc # "returned"

\* fetchUrl(url) up to its first await: the cached content is returned, or
\* the request is issued
FetchUrl(k, url) ==
  /\ NoneReturned
  /\ fetcher.calls[k].pc = "idle"
  /\ fetcher' =
       [fetcher EXCEPT !.calls[k] =
          IF CacheFresh(fetcher.urlCache[url], now)
          THEN [pc |-> "returned", url |-> url, requested |-> FALSE, ok |-> TRUE,
                content |-> fetcher.urlCache[url].content]
          ELSE [pc |-> "fetching", url |-> url, requested |-> TRUE, ok |-> FALSE,
                content |-> "none"]]
  /\ UNCHANGED <<now, channelContexts, timers, turns, trim, send, managerCall>>

\* the request and the reading of the body settle: a body of a handled
\* content type is cached under the URL with the time of now and returned;
\* every other outcome returns a message and leaves the cache alone
FetchSettles(k, o) ==
  /\ NoneReturned
  /\ fetcher.calls[k].pc = "fetching"
  /\ LET url == fetcher.calls[k].url
     IN  fetcher' =
           IF o.kind \in CachedKinds
           THEN [fetcher EXCEPT
                   !.urlCache[url] = [exists |-> TRUE, content |-> o.content,
                                      timestamp |-> now],
                   !.calls[k] = [@ EXCEPT !.pc = "returned", !.ok = TRUE,
                                          !.content = o.content]]
           ELSE [fetcher EXCEPT
                   !.calls[k] = [@ EXCEPT !.pc = "returned", !.ok = FALSE,
                                          !.content = o.kind]]
  /\ UNCHANGED <<now, channelContexts, timers, turns, trim, send, managerCall>>

\* the returned call is gone
FetchReturned(k) ==
  /\ fetcher.calls[k].pc = "returned"
  /\ fetcher' = [fetcher EXCEPT !.calls[k] = NoFetch]
  /\ UNCHANGED <<now, channelContexts, timers, turns, trim, send, managerCall>>

(***************************************************************************)
(* The methods of ContextManager, called in any order on any channel.      *)
(***************************************************************************)
Methods == {"startMonitoring", "stopMonitoring", "shouldRespond",
            "incrementFollowUpCount", "resetFollowUpCount"}
\* flip tells one call from the next
NoCallYet == [method |-> "none", channelId |-> "none", result |-> FALSE, flip |-> FALSE]
Called(method, channelId, result) ==
  [method |-> method, channelId |-> channelId, result |-> result, flip |-> ~managerCall.flip]

CallStartMonitoring(channelId) ==
  /\ Len(timers) < MaxTimers
  /\ channelContexts' = StartMonitoring(channelContexts, channelId, now)
  /\ timers' = ScheduleStop(timers, channelId, now)
  /\ managerCall' = Called("startMonitoring", channelId, FALSE)
  /\ UNCHANGED <<now, turns, trim, send, fetcher>>

CallStopMonitoring(channelId) ==
  /\ channelContexts' = StopMonitoring(channelContexts, channelId)
  /\ managerCall' = Called("stopMonitoring", channelId, FALSE)
  /\ UNCHANGED <<now, timers, turns, trim, send, fetcher>>

CallShouldRespond(channelId) ==
  /\ channelContexts' = ShouldRespondEffect(channelContexts, channelId)
  /\ managerCall' = Called("shouldRespond", channelId, ShouldRespond(channelContexts, channelId))
  /\ UNCHANGED <<now, timers, turns, trim, send, fetcher>>

CallIncrementFollowUpCount(channelId) ==
  /\ channelContexts[channelId].followUpCount < MaxCount
  /\ channelContexts' = IncrementFollowUpCount(channelContexts, channelId, now)
  /\ managerCall' = Called("incrementFollowUpCount", channelId, FALSE)
  /\ UNCHANGED <<now, timers, turns, trim, send, fetcher>>

CallResetFollowUpCount(channelId) ==
  /\ channelContexts' = ResetFollowUpCount(channelContexts, channelId)
  /\ managerCall' = Called("resetFollowUpCount", channelId, FALSE)
  /\ UNCHANGED <<now, timers, turns, trim, send, fetcher>>

Init ==
  /\ now = 0
  /\ channelContexts = [c \in Channels |-> NoContext]
  /\ timers = <<>>
  /\ turns = [t \in Turns |-> IdleTurn]
  /\ trim = NoTrim
  /\ send = NoSend
  /\ fetcher = NoFetcher
  /\ managerCall = NoCallYet

Next ==
  \/ \E t \in Turns, c \in Channels, fromBot \in BOOLEAN, isMentioned \in BOOLEAN :
       Start(t, c, fromBot, isMentioned)
  \/ \E t \in Turns, ok \in BOOLEAN : TypingDone(t, ok)
  \/ \E t \in Turns, ok \in BOOLEAN : ContextDone(t, ok)
  \/ \E t \in Turns : PrepareDone(t)
  \/ \E t \in Turns, o \in ApiOutcomes : ApiResolve(t, o)
  \/ \E t \in Turns : BackoffDone(t)
  \/ \E t \in Turns, o \in ToolOutcomes, statusSent \in BOOLEAN : ToolStep(t, o, statusSent)
  \/ \E t \in Turns, ok \in BOOLEAN : ThinkingDone(t, ok)
  \/ \E t \in Turns, ok \in BOOLEAN, more \in BOOLEAN : SendChunk(t, ok, more)
  \/ \E t \in Turns, ok \in BOOLEAN : ApologyDone(t, ok)
  \/ \E t \in Turns : Forget(t)
  \/ FireTimer
  \/ Tick

Spec == Init /\ [][Next]_vars

(***************************************************************************)
(* The specifications that are checked are restrictions of Spec, whose     *)
(* state space is their product.                                           *)
(*                                                                         *)
(* SpecTurn: the turns of one channel, one after another, with every       *)
(* outcome of the model, of the tools and of the platform.                 *)
(***************************************************************************)
\* every successful response, and one error of each kind: one that is
\* retried and one that is not
TurnOutcomes ==
  SuccessOutcomes \cup
    {o \in ErrorOutcomes : o.status \in {429, 529} /\ ~o.overloaded /\ ~o.retryHeader}

NextTurn ==
  \/ \E fromBot \in BOOLEAN, isMentioned \in BOOLEAN : Start(1, "c1", fromBot, isMentioned)
  \/ \E ok \in BOOLEAN : TypingDone(1, ok)
  \/ \E ok \in BOOLEAN : ContextDone(1, ok)
  \/ PrepareDone(1)
  \/ \E o \in TurnOutcomes : ApiResolve(1, o)
  \/ BackoffDone(1)
  \/ \E o \in ToolOutcomes, statusSent \in BOOLEAN : ToolStep(1, o, statusSent)
  \/ \E ok \in BOOLEAN : ThinkingDone(1, ok)
  \/ \E ok \in BOOLEAN, more \in BOOLEAN : SendChunk(1, ok, more)
  \/ \E ok \in BOOLEAN : ApologyDone(1, ok)
  \/ Forget(1)

SpecTurn == Init /\ [][NextTurn]_vars

\* One invocation at a time whose model calls meet every error, and
\* answer with a text or with one tool call.
CallOutcomes ==
  ErrorOutcomes \cup
    {o \in SuccessOutcomes : o.text = <<"hi">> /\ o.names \in {<<>>, <<"fetch_url">>}}

NextCall ==
  \/ \E fromBot \in BOOLEAN, isMentioned \in BOOLEAN : Start(1, "c1", fromBot, isMentioned)
  \/ \E ok \in BOOLEAN : TypingDone(1, ok)
  \/ \E ok \in BOOLEAN : ContextDone(1, ok)
  \/ PrepareDone(1)
  \/ \E o \in CallOutcomes : ApiResolve(1, o)
  \/ BackoffDone(1)
  \/ \E o \in ToolOutcomes, statusSent \in BOOLEAN : ToolStep(1, o, statusSent)
  \/ \E ok \in BOOLEAN : ThinkingDone(1, ok)
  \/ \E ok \in BOOLEAN, more \in BOOLEAN : SendChunk(1, ok, more)
  \/ \E ok \in BOOLEAN : ApologyDone(1, ok)
  \/ Forget(1)

SpecCall == Init /\ [][NextCall]_vars

(***************************************************************************)
(* SpecOverlap: overlapping turns of one channel, the clock and the        *)
(* deactivation timers, with a model that answers in text (no custom tool  *)
(* request, no retryable failure), so that every await of a turn up to its *)
(* reply is an interleaving point.                                         *)
(***************************************************************************)
PlainOutcomes ==
  {o \in ApiOutcomes :
     IF o.ok THEN o.names = <<>> /\ o.text \in {<<"hi">>, <<Sentinel>>}
     ELSE o.status = 429 /\ ~o.overloaded /\ ~o.retryHeader}

NextOverlap ==
  \/ \E t \in Turns, fromBot \in BOOLEAN, isMentioned \in BOOLEAN :
       Start(t, "c1", fromBot, isMentioned)
  \/ \E t \in Turns, ok \in BOOLEAN : TypingDone(t, ok)
  \/ \E t \in Turns, ok \in BOOLEAN : ContextDone(t, ok)
  \/ \E t \in Turns : PrepareDone(t)
  \/ \E t \in Turns, o \in PlainOutcomes : ApiResolve(t, o)
  \/ \E t \in Turns, ok \in BOOLEAN, more \in BOOLEAN : SendChunk(t, ok, more)
  \/ \E t \in Turns, ok \in BOOLEAN : ApologyDone(t, ok)
  \/ \E t \in Turns : Forget(t)
  \/ FireTimer
  \/ Tick

SpecOverlap == Init /\ [][NextOverlap]_vars

\* trimMessagesToTokenLimit on its own, over the arguments of TrimInputs
InitTrim ==
  /\ now = 0
  /\ channelContexts = [c \in Channels |-> NoContext]
  /\ timers = <<>>
  /\ turns = [t \in Turns |-> IdleTurn]
  /\ trim \in TrimInputs
  /\ send = NoSend
  /\ fetcher = NoFetcher
  /\ managerCall = NoCallYet

NextTrim ==
  \/ TrimMessages
  \/ TrimAgain

SpecTrim == InitTrim /\ [][NextTrim]_vars

\* SpecLive: the turns of one channel, one after another, where every awaited
\* call settles and the platform accepts the reply of the catch block (every
\* other platform call may still reject).  A continuation whose awaited call
\* has settled is run by the event loop: the steps of a started turn are
\* weakly fair.
LiveOutcomes ==
  {o \in TurnOutcomes :
     o.ok => o.text \in {<<"hi">>, <<Sentinel>>} /\ o.names \in {<<>>, <<"fetch_url">>}}

TurnStep ==
  \/ \E ok \in BOOLEAN : TypingDone(1, ok)
  \/ \E ok \in BOOLEAN : ContextDone(1, ok)
  \/ PrepareDone(1)
  \/ \E o \in LiveOutcomes : ApiResolve(1, o)
  \/ BackoffDone(1)
  \/ \E o \in ToolOutcomes, statusSent \in BOOLEAN : ToolStep(1, o, statusSent)
  \/ \E ok \in BOOLEAN : ThinkingDone(1, ok)
  \/ \E ok \in BOOLEAN, more \in BOOLEAN : SendChunk(1, ok, more)
  \/ ApologyDone(1, TRUE)
  \/ Forget(1)

NextLive ==
  \/ \E fromBot \in BOOLEAN, isMentioned \in BOOLEAN : Start(1, "c1", fromBot, isMentioned)
  \/ TurnStep

SpecLive == Init /\ [][NextLive]_vars /\ WF_vars(TurnStep)

\* SpecExpiry: the turns of one channel, one after another, with the clock.
\* The clock of the model stops at MaxTime, so mentions arrive only while the
\* timeout they start can still be reached.  Time passes and a due timer
\* callback is run however many messages are handled in between (Tick and
\* FireTimer are strongly fair), and a settled invocation is gone at once.
NextExpiry ==
  \/ \E fromBot \in BOOLEAN, isMentioned \in BOOLEAN :
       /\ isMentioned => now + FollowUpTimeoutTicks <= MaxTime
       /\ Start(1, "c1", fromBot, isMentioned)
  \/ \E ok \in BOOLEAN : TypingDone(1, ok)
  \/ \E ok \in BOOLEAN : ContextDone(1, ok)
  \/ PrepareDone(1)
  \/ \E o \in PlainOutcomes : ApiResolve(1, o)
  \/ \E ok \in BOOLEAN, more \in BOOLEAN : SendChunk(1, ok, more)
  \/ \E ok \in BOOLEAN : ApologyDone(1, ok)
  \/ Forget(1)
  \/ FireTimer
  \/ Tick

SpecExpiry ==
  /\ Init /\ [][NextExpiry]_vars
  /\ SF_vars(FireTimer) /\ SF_vars(Tick) /\ WF_vars(Forget(1))

\* the context of one turn, from the fetched history to the list passed on
InitContext ==
  /\ now = 0
  /\ channelContexts = [c \in Channels |-> NoContext]
  /\ timers = <<>>
  /\ turns = [t \in Turns |-> IdleTurn]
  /\ trim \in ContextInputs
  /\ send = NoSend
  /\ fetcher = NoFetcher
  /\ managerCall = NoCallYet

NextContext ==
  \/ FormatContext
  \/ PassContext

SpecContext == InitContext /\ [][NextContext]_vars

\* the fetchUrl calls of the handler, overlapping, with the clock
NextFetch ==
  \/ \E k \in Fetches, url \in Urls : FetchUrl(k, url)
  \/ \E k \in Fetches, o \in FetchOutcomes : FetchSettles(k, o)
  \/ \E k \in Fetches : FetchReturned(k)
  \/ Tick

SpecFetch == Init /\ [][NextFetch]_vars

\* every method of ContextManager on every channel, with the timers
NextManager ==
  \/ \E c \in Channels : CallStartMonitoring(c)
  \/ \E c \in Channels : CallStopMonitoring(c)
  \/ \E c \in Channels : CallShouldRespond(c)
  \/ \E c \in Channels : CallIncrementFollowUpCount(c)
  \/ \E c \in Channels : CallResetFollowUpCount(c)
  \/ FireTimer
  \/ Tick

SpecManager == Init /\ [][NextManager]_vars

\* one call of sendResponse
InitSend ==
  /\ now = 0
  /\ channelContexts = [c \in Channels |-> NoContext]
  /\ timers = <<>>
  /\ turns = [t \in Turns |-> IdleTurn]
  /\ trim = NoTrim
  /\ send \in SendInputs
  /\ fetcher = NoFetcher
  /\ managerCall = NoCallYet

NextSend ==
  \/ SendResponse
  \/ \E ok \in BOOLEAN : Reply(ok)
  \/ \E ok \in BOOLEAN : ChannelSend(ok)

SpecSend == InitSend /\ [][NextSend]_vars

(***************************************************************************)
(* The claims                                                              *)
(***************************************************************************)
Cx(t) == channelContexts[turns[t].channel]

\* C1 (as stated; refuted by the code): in a turn in which every
\* tools-enabled model response is a tool-call response, the total number of
\* model calls (the initial call plus the calls of handleToolExecution,
\* retries not counted) is at most maxRounds + 1.  The state that awaits the
\* forced final call while currentResponse still holds tool calls is such a
\* turn.
C1_AtMostCapPlusOneCalls ==
  \A t \in Turns :
    (turns[t].phase = "final" /\ turns[t].response.kind = "tools")
      => turns[t].modelCalls <= MaxRounds + 1

\* the turn is inside handleToolExecution, past its first loop head
InLoop(tr) ==
  \/ tr.pc \in {"tool", "thinking"}
  \/ tr.pc \in {"model", "backoff"} /\ tr.phase \in {"round", "final"}

\* a variant of handleToolExecution: rounds left, then the position in the
\* round (tool calls left, the Thinking message, the attempts left of the
\* model call)
RoundWeight == 2 * MaxRetries + MaxTools + 4
AttemptRank(tr) == 2 * (MaxRetries - tr.retryCount) + (IF tr.pc = "model" THEN 1 ELSE 0)
Rank(tr) ==
  IF tr.phase = "final" /\ tr.pc \in {"model", "backoff"} THEN AttemptRank(tr)
  ELSE (MaxRounds - tr.roundCount + 1) * RoundWeight +
       (CASE tr.pc = "tool" ->
               2 * MaxRetries + 3 + (Len(tr.response.toolCalls) - tr.toolIdx + 1)
          [] tr.pc = "thinking" -> 2 * MaxRetries + 2
          [] OTHER -> AttemptRank(tr))

\* C2: whatever the model answers (text, tool calls, retryable and
\* non-retryable errors), handleToolExecution terminates: every step it takes
\* lowers a variant that is never negative.  When it returns, it returns a
\* string; it is left otherwise only when a Discord send or edit inside it
\* throws.  The call made once the round cap is reached has tools disabled,
\* and such a call, retries included, never yields a tool-call result (the
\* fallback text for that case is never returned), so no round follows it.
C2_TerminatesWithString ==
  /\ [](\A t \in Turns :
          /\ InLoop(turns[t]) => Rank(turns[t]) >= 0
          /\ turns[t].phase = "final" =>
               (~turns[t].enableTools /\ turns[t].roundCount = MaxRounds)
          /\ turns[t].pc = "send" =>
               (turns[t].answer # <<>> /\ turns[t].answer # AfterToolsErrorMsg))
  /\ [][\A t \in Turns :
          (InLoop(turns[t]) /\ turns'[t] # turns[t]) =>
            IF InLoop(turns'[t])
            THEN /\ Rank(turns'[t]) < Rank(turns[t])
                 /\ turns[t].phase = "final" => turns'[t].phase = "final"
            ELSE \/ turns'[t].pc = "send"
                 \/ turns'[t].pc = "apology" /\ turns[t].pc \in {"tool", "thinking"}]_vars

\* C2 witness: the round cap was reached and the forced final call, tools
\* disabled, is in its last retry
C2_ForcedFinalRetried ==
  \E t \in Turns :
    /\ turns[t].pc = "model" /\ turns[t].phase = "final"
    /\ turns[t].retryCount = MaxRetries

\* C3: the number of tool-execution rounds of a turn never exceeds maxRounds
C3_RoundsWithinCap ==
  \A t \in Turns : turns[t].roundCount <= MaxRounds

\* C3 witness: the last permitted round is executing a tool call
C3_LastRoundRunning ==
  \E t \in Turns : turns[t].pc = "tool" /\ turns[t].roundCount = MaxRounds

\* C4 (as stated; refuted by the code): whenever a tools-enabled model call
\* returns a text answer, the turn makes no further model call and goes on to
\* send that text (or, for the first reply of a follow-up turn, to decline).
C4_TextAnswerIsTerminal ==
  [][\A t \in Turns :
       ( /\ turns[t].pc = "model" /\ turns[t].enableTools
         /\ turns'[t] # turns[t]
         /\ turns'[t].pc # "backoff"
         /\ turns'[t].response.kind # "tools" )
       => /\ turns'[t].modelCalls = turns[t].modelCalls
          /\ turns'[t].pc \in {"send", "done"}]_vars

\* C5 (as stated; refuted by the code): followUpCount never exceeds
\* followUpMessageCount, whatever the interleaving of the turns of a channel.
C5_FollowUpCountWithinCap ==
  \A c \in Channels : channelContexts[c].followUpCount <= FollowUpMessageCount

\* the pending deactivations of a channel
PendingFor(c) == SelectSeq(timers, LAMBDA tm : tm.channelId = c)

\* C6 (as stated; refuted by the code): at most one deactivation is pending
\* per channel, and while the deactivation of the latest activation is not
\* yet due the channel is monitored, unless the follow-up cap was reached.
C6_DeactivationSuperseded ==
  \A c \in Channels :
    LET pending == PendingFor(c)
    IN  /\ Len(pending) <= 1
        /\ ( /\ pending # <<>>
             /\ now < pending[Len(pending)].due
             /\ channelContexts[c].followUpCount < FollowUpMessageCount )
           => channelContexts[c].isMonitoring

\* a message of a user starts being handled by invocation t in this step
Handled(t) == turns[t].pc = "idle" /\ turns'[t].pc # "idle" /\ turns'[t].outcome # "own"

\* C7: with the turns of a channel processed one after another, a non-mention
\* message that arrives when the monitored channel has followUpMessageCount
\* follow-up responses is rejected (the invocation returns at once: no model
\* call, nothing sent) and the channel is no longer monitored.
C7_CapRejectsNextFollowUp ==
  [][\A t \in Turns :
       LET c == turns'[t].channel
       IN  ( /\ Handled(t) /\ ~turns'[t].isMentioned
             /\ channelContexts[c].exists /\ channelContexts[c].isMonitoring
             /\ channelContexts[c].followUpCount >= FollowUpMessageCount )
           => /\ turns'[t].pc = "done" /\ turns'[t].outcome = "rejected"
              /\ turns'[t].modelCalls = 0 /\ ~turns'[t].sentAny
              /\ ~channelContexts'[c].isMonitoring
              /\ channelContexts'[c].followUpCount = channelContexts[c].followUpCount]_vars

\* C7 witness: a follow-up candidate was rejected on a channel that has
\* exactly followUpMessageCount follow-up responses and is now inactive
C7_RejectedAtCap ==
  \E t \in Turns :
    /\ turns[t].pc = "done" /\ turns[t].outcome = "rejected"
    /\ Cx(t).followUpCount = FollowUpMessageCount
    /\ ~Cx(t).isMonitoring

\* C8: handling a mention leaves the channel with followUpCount = 0 and
\* isMonitoring = true, whatever its state was (no entry, active, inactive,
\* any count), and the invocation goes on to respond.
C8_MentionResetsAndActivates ==
  [][\A t \in Turns :
       (Handled(t) /\ turns'[t].isMentioned)
       => LET ctx == channelContexts'[turns'[t].channel]
          IN  /\ ctx.exists /\ ctx.followUpCount = 0 /\ ctx.isMonitoring
              /\ turns'[t].pc = "typing"]_vars

\* C8 witness: a second mention was just handled while a follow-up turn that
\* had incremented the count is still in flight: the count is 0 again
C8_MentionAfterIncrement ==
  \E t, u \in Turns :
    /\ t # u /\ turns[t].channel = turns[u].channel
    /\ turns[t].pc = "typing" /\ turns[t].isMentioned
    /\ InFlight(turns[u]) /\ turns[u].incremented
    /\ Len(PendingFor(turns[t].channel)) = 2
    /\ Cx(t).followUpCount = 0 /\ Cx(t).isMonitoring

\* C9: a follow-up turn whose first reply holds the sentinel ends there with
\* no side effect: the step that declines changes neither the channel state
\* nor the timers, the turn has sent nothing and has not incremented the
\* count (nor has any follow-up turn before its first reply), and a first
\* reply that holds the sentinel is never sent.
C9_DeclineHasNoSideEffect ==
  /\ [](\A t \in Turns :
          /\ ( /\ IsFollowUp(turns[t])
               /\ turns[t].pc \in {"typing", "context", "prepare", "model", "backoff"}
               /\ turns[t].phase \in {"none", "initial"} )
             => (~turns[t].incremented /\ ~turns[t].sentAny /\ turns[t].delivered = 0)
          /\ (IsFollowUp(turns[t]) /\ turns[t].pc = "send" /\ turns[t].modelCalls = 1)
             => ~Includes(turns[t].answer, Sentinel))
  /\ [][\A t \in Turns :
          (turns'[t].outcome = "declined" /\ turns[t].outcome # "declined")
          => /\ IsFollowUp(turns[t])
             /\ channelContexts' = channelContexts /\ timers' = timers
             /\ ~turns'[t].incremented /\ ~turns'[t].sentAny
             /\ turns'[t].delivered = 0]_vars

\* C9 witness: a follow-up turn has declined
C9_Declined ==
  \E t \in Turns :
    /\ turns[t].pc = "done" /\ turns[t].outcome = "declined"
    /\ IsFollowUp(turns[t]) /\ Cx(t).isMonitoring

\* C10 (as stated; refuted by the code): a follow-up turn that failed before
\* any chunk of its response was delivered has not incremented followUpCount.
C10_NoIncrementWithoutResponse ==
  \A t \in Turns :
    ( /\ turns[t].pc = "done"
      /\ turns[t].outcome \in {"apologized", "failed"}
      /\ turns[t].delivered = 0 )
    => ~turns[t].incremented

\* C11 (as stated; refuted by the code): while the tool calls of a round are
\* executed, whatever fails, every step ends one call with one more result
\* under the id of that call, leaves the results of the sibling calls as they
\* are and goes on to the next call or to the end of the round (the turn is
\* not aborted); at the end of a round all of whose calls name a tool the
\* handler executes, the result list is as long as the list of calls.
C11_ToolFailureIsIsolated ==
  /\ [](\A t \in Turns :
          ( /\ turns[t].pc = "thinking"
            /\ \A i \in DOMAIN turns[t].response.toolCalls :
                 turns[t].response.toolCalls[i].name \in HandledTools )
          => Len(turns[t].toolResults) = Len(turns[t].response.toolCalls))
  /\ [][\A t \in Turns :
          (turns[t].pc = "tool" /\ turns'[t] # turns[t])
          => LET old == turns[t].toolResults
                 new == turns'[t].toolResults
                 call == turns[t].response.toolCalls[turns[t].toolIdx]
             IN  /\ turns'[t].pc \in {"tool", "thinking"}
                 /\ Len(new) = Len(old) + 1
                 /\ SubSeq(new, 1, Len(old)) = old
                 /\ new[Len(new)].tool_use_id = call.id]_vars

\* the two messages of a round, as the claim has them
RoundPair(tr) ==
  <<[role |-> "assistant", kind |-> "tool_use", content |-> tr.response.toolCalls],
    [role |-> "user", kind |-> "tool_result",
     content |-> [i \in 1..Len(tr.toolResults) |->
                    [type |-> "tool_result",
                     tool_use_id |-> tr.toolResults[i].tool_use_id,
                     isError |-> tr.toolResults[i].isError]]]>>

\* C12: the messages of a round are appended in one step, after the last
\* tool call of the round: exactly two, the assistant message with the
\* round's tool calls and then the user message with the round's tool
\* results, with no model call in that step; nothing else is appended before
\* the model is called again, and that call has tools enabled.
C12_RoundAppendsPairThenCalls ==
  /\ [](\A t \in Turns :
          /\ turns[t].pc = "tool" => Len(turns[t].appended) = 2 * (turns[t].roundCount - 1)
          /\ turns[t].pc = "thinking" =>
               /\ Len(turns[t].appended) = 2 * turns[t].roundCount
               /\ SubSeq(turns[t].appended, Len(turns[t].appended) - 1,
                         Len(turns[t].appended)) = RoundPair(turns[t]))
  /\ [][\A t \in Turns :
          /\ Len(turns'[t].appended) > Len(turns[t].appended) =>
               /\ turns'[t].appended = turns[t].appended \o RoundPair(turns'[t])
               /\ turns'[t].pc = "thinking"
               /\ turns'[t].modelCalls = turns[t].modelCalls
          /\ (turns[t].pc = "thinking" /\ turns'[t].pc \notin {"thinking", "apology"}) =>
               /\ turns'[t].pc = "model" /\ turns'[t].phase = "round"
               /\ turns'[t].enableTools
               /\ turns'[t].modelCalls = turns[t].modelCalls + 1
               /\ Len(turns'[t].appended) = Len(turns[t].appended)
               /\ \A i \in DOMAIN turns[t].appended :
                    turns'[t].appended[i].role = turns[t].appended[i].role]_vars

\* C12 witness: the model was called again, tools enabled, after the two
\* messages of the second round
C12_SecondRoundCalled ==
  \E t \in Turns :
    /\ turns[t].pc = "model" /\ turns[t].phase = "round" /\ turns[t].enableTools
    /\ turns[t].roundCount = 2 /\ Len(turns[t].appended) = 4
    /\ turns[t].appended[3].role = "assistant" /\ turns[t].appended[4].role = "user"

\* the position of the call with this id in the model's response
CallPosition(calls, id) == CHOOSE i \in DOMAIN calls : calls[i].id = id

\* C13: the tool_result blocks appended for a round each carry the id of a
\* tool call of the model's response, and they are in the order of their
\* calls in that response.
C13_ResultsInCallOrder ==
  \A t \in Turns :
    turns[t].pc = "thinking" =>
      LET calls == turns[t].response.toolCalls
          blocks == turns[t].appended[Len(turns[t].appended)].content
      IN  /\ \A i \in DOMAIN blocks :
               \E j \in DOMAIN calls : calls[j].id = blocks[i].tool_use_id
          /\ \A i, j \in DOMAIN blocks :
               i < j => CallPosition(calls, blocks[i].tool_use_id)
                          < CallPosition(calls, blocks[j].tool_use_id)

\* C13 witness: a round of two calls, the first failed and the second
\* succeeded, has appended its two results
C13_TwoResultsAppended ==
  \E t \in Turns :
    /\ turns[t].pc = "thinking"
    /\ Len(turns[t].response.toolCalls) = 2
    /\ Len(turns[t].appended[Len(turns[t].appended)].content) = 2
    /\ turns[t].toolResults[1].isError /\ ~turns[t].toolResults[2].isError

\* the delays the claims speak of, in ms: 1 s doubling per attempt
DoublingFromOneSecond(waits) == \A i \in DOMAIN waits : waits[i] = 1000 * 2^(i - 1)
\* the signals of a retryable failure: the overload/unavailable statuses, an
\* "Overloaded" message, the retry hint of the server
RetryableSignal(f) ==
  f.failed /\ (f.status \in {500, 502, 503, 529} \/ f.overloaded \/ f.retryHeader)
Attempting(tr) == tr.pc \in {"model", "backoff"}
BackoffRules(tr) ==
  /\ Attempting(tr) =>
       /\ Len(tr.waits) = tr.retryCount + (IF tr.pc = "backoff" THEN 1 ELSE 0)
       /\ DoublingFromOneSecond(tr.waits)
       /\ \A i \in DOMAIN tr.waits : tr.waits[i] <= 10000
  /\ tr.pc = "backoff" =>
       /\ RetryableSignal(tr.failure)
       /\ tr.delay = tr.waits[Len(tr.waits)]

\* C14 (as stated; refuted by the code): one logical model call makes at
\* most 3 attempts, re-attempts only after a retryable failure, and waits
\* before each re-attempt 1 s doubling per attempt, never more than 10 s.
C14_AtMostThreeAttempts ==
  \A t \in Turns :
    /\ Attempting(turns[t]) => turns[t].retryCount + 1 <= 3
    /\ BackoffRules(turns[t])

\* C14 (amended): one logical model call makes at most 4 attempts (the first
\* and up to 3 re-attempts), re-attempts only after a retryable failure, and
\* waits before each re-attempt 1 s doubling per attempt (1 s, 2 s, 4 s),
\* never more than 10 s.
C14_AtMostFourAttempts ==
  \A t \in Turns :
    /\ Attempting(turns[t]) => turns[t].retryCount + 1 <= 4
    /\ BackoffRules(turns[t])

\* C14 witness: the fourth attempt is under way after waits of 1, 2 and 4 s
C14_FourthAttempt ==
  \E t \in Turns :
    /\ turns[t].pc = "model" /\ turns[t].retryCount = 3
    /\ turns[t].waits = <<1000, 2000, 4000>>

\* generateResponse returns in this step, and what it returns
Returns(t) ==
  turns[t].pc = "model" /\ turns'[t] # turns[t] /\ turns'[t].pc # "backoff"
Returned(tr) == IF tr.pc = "send" THEN TextResult(tr.answer) ELSE tr.response
ErrorTexts == {OverloadedMsg, RateLimitMsg, TemporaryIssueMsg, GenericErrorMsg}

\* C15: a third attempt is made after exactly two waits, of 1 s and then
\* 2 s; when it succeeds, generateResponse returns the tool calls or the
\* text of the model, not an error message.
C15_ThirdAttemptSucceeds ==
  /\ [](\A t \in Turns :
          (turns[t].pc = "model" /\ turns[t].retryCount = 2)
          => turns[t].waits = <<1000, 2000>>)
  /\ [][\A t \in Turns :
          ( /\ Returns(t) /\ turns[t].retryCount = 2
            /\ turns'[t].pc # "done"
            /\ ~turns'[t].lastCall.failure.failed )
          => LET r == Returned(turns'[t])
             IN  \/ r.kind = "tools" /\ turns[t].enableTools /\ r.toolCalls # <<>>
                 \/ /\ r.kind = "text"
                    /\ r.text \in (ModelTexts \ {<<>>}) \cup {CouldNotGenerateMsg}
                    /\ r.text \notin ErrorTexts]_vars

\* C15 witness: the text of a third, successful attempt is being sent
C15_SentAfterTwoWaits ==
  \E t \in Turns :
    /\ turns[t].pc = "send" /\ turns[t].answer = <<"hi">>
    /\ turns[t].lastCall.attempts = 3
    /\ turns[t].lastCall.waits = <<1000, 2000>>
    /\ ~turns[t].lastCall.failure.failed

\* a failure with none of the retryable signals
Permanent(f) == f.failed /\ ~RetryableSignal(f)

\* C16: a permanent error (none of the retryable signals, e.g. status 400 or
\* a plain 429) is never followed by a backoff wait or a further attempt:
\* generateResponse returns at once, the rate-limit message for status 429
\* and the generic message otherwise, and the two differ.
C16_PermanentErrorNotRetried ==
  /\ [](\A t \in Turns :
          /\ turns[t].pc = "backoff" => ~Permanent(turns[t].failure)
          /\ RateLimitMsg # GenericErrorMsg)
  /\ [][\A t \in Turns :
          (Returns(t) /\ turns'[t].pc # "done" /\ Permanent(turns'[t].lastCall.failure))
          => /\ turns'[t].lastCall.attempts = turns[t].retryCount + 1
             /\ turns'[t].lastCall.waits = turns[t].waits
             /\ Returned(turns'[t]) =
                  TextResult(IF turns'[t].lastCall.failure.status = 429
                             THEN RateLimitMsg ELSE GenericErrorMsg)]_vars

\* C16 witness: a plain 429 on the first attempt: the rate-limit message is
\* being sent, no wait was made
C16_RateLimitSurfaced ==
  \E t \in Turns :
    /\ turns[t].pc = "send" /\ turns[t].answer = RateLimitMsg
    /\ turns[t].lastCall.attempts = 1 /\ turns[t].lastCall.waits = <<>>
    /\ turns[t].lastCall.failure.status = 429

\* C17 (as stated; refuted by the code): when the last attempt allowed ends
\* on a retryable failure, generateResponse returns a message, and it is one
\* of the "servers are busy" messages (overloaded, temporary issue), not
\* the generic one nor another.
C17_ExhaustedRetriesSayBusy ==
  [][\A t \in Turns :
       ( /\ Returns(t) /\ turns[t].retryCount = MaxRetries
         /\ RetryableSignal(turns'[t].lastCall.failure) )
       => /\ turns'[t].pc \in {"send", "model"}
          /\ Returned(turns'[t]).kind = "text"
          /\ Returned(turns'[t]).text \in {OverloadedMsg, TemporaryIssueMsg}]_vars

\* trimMessagesToTokenLimit has been applied to trim.messages
Trimmed == trim.pc \in {"trimmed", "again"}
\* the last k elements of a sequence of at least k elements
LastOf(seq, k) == SubSeq(seq, Len(seq) - k + 1, Len(seq))
KeptTail == IF trim.preserveLatest < Len(trim.messages)
            THEN trim.preserveLatest ELSE Len(trim.messages)

\* C18: whatever the budget, the last min(k, |messages|) elements of the
\* result of trimMessagesToTokenLimit(messages, budget, k) are the last
\* min(k, |messages|) messages of the input, unchanged and in order.
C18_TailPreserved ==
  Trimmed =>
    /\ Len(trim.result) >= KeptTail
    /\ LastOf(trim.result, KeptTail) = LastOf(trim.messages, KeptTail)

\* C18 witness: more than k messages were trimmed under a budget smaller
\* than the cost of the last k alone
C18_TailOverBudget ==
  /\ trim.pc = "trimmed"
  /\ Len(trim.messages) > trim.preserveLatest
  /\ CountMessageTokens(LastOf(trim.messages, trim.preserveLatest)) > trim.maxTokens
  /\ LastOf(trim.result, trim.preserveLatest) = LastOf(trim.messages, trim.preserveLatest)

\* C19: when the estimated token count of the messages is within the
\* budget, trimMessagesToTokenLimit returns the same messages in the same
\* order, with no note added; this also holds of its own result.
C19_WithinBudgetUnchanged ==
  (Trimmed /\ CountMessageTokens(trim.messages) <= trim.maxTokens)
    => trim.result = trim.messages

\* C19 witness: a trimmed sequence (it starts with the note and has more
\* than k messages) is within budget and was trimmed again: it is unchanged
C19_TrimmedAgainUnchanged ==
  /\ trim.pc = "again"
  /\ Len(trim.messages) > trim.preserveLatest
  /\ trim.messages[1] \notin SomeMessages
  /\ CountMessageTokens(trim.messages) <= trim.maxTokens
  /\ trim.result = trim.messages

\* the result when the newest j of the older messages are kept
KeepingNewest(j) ==
  LET n == Len(trim.messages)
      older == SubSeq(trim.messages, 1, n - trim.preserveLatest)
  IN  (IF j < Len(older)
       THEN <<[role |-> "user", isString |-> TRUE,
               content |-> <<"[Context", "Note:", Len(older) - j, "earlier", "messages",
                             "were", "trimmed", "to", "fit", "token", "limit]">>]>>
       ELSE <<>>)
      \o LastOf(older, j) \o LastOf(trim.messages, trim.preserveLatest)
\* the cost of the last k messages and of the j older messages before them
CostOfNewest(j) == CountMessageTokens(LastOf(trim.messages, trim.preserveLatest + j))
\* j is where the walk from the newest older message stops
StopsAt(j) ==
  LET olderCount == Len(trim.messages) - trim.preserveLatest
  IN  /\ \A i \in 1..j : CostOfNewest(i) <= trim.maxTokens
      /\ j < olderCount => CostOfNewest(j + 1) > trim.maxTokens

\* C20: of the messages before the last k, trim keeps the run of the newest
\* j, whole, in their order, where j is the first point at which the cost of
\* the last k plus the run would exceed the budget with one more message;
\* nothing older than that message is kept, even a smaller one that would fit.
C20_KeepsNewestRun ==
  (Trimmed /\ Len(trim.messages) > trim.preserveLatest)
    => \E j \in 0..(Len(trim.messages) - trim.preserveLatest) :
         StopsAt(j) /\ trim.result = KeepingNewest(j)

\* C20 witness: the walk stopped at a message that did not fit although an
\* older, smaller message would still have fitted
C20_SmallerOlderNotKept ==
  /\ trim.pc = "trimmed"
  /\ Len(trim.messages) > trim.preserveLatest
  /\ \E j \in 0..(Len(trim.messages) - trim.preserveLatest - 2) :
       /\ StopsAt(j) /\ trim.result = KeepingNewest(j)
       /\ \E i \in 1..(Len(trim.messages) - trim.preserveLatest - j - 1) :
            CostOfNewest(j) + CountMessageTokens(<<trim.messages[i]>>) <= trim.maxTokens

\* a synthetic notice: the trimmed inputs are drawn from SomeMessages, so a
\* message outside it was put there by the trim
IsNotice(m) == m \notin SomeMessages
\* how many input messages are missing from the result
DroppedCount ==
  Len(trim.messages) - Len(SelectSeq(trim.result, LAMBDA m : ~IsNotice(m)))

\* C21: the result of trimMessagesToTokenLimit begins with exactly one
\* notice message if and only if at least one older message was dropped,
\* and the number in the notice is the number of dropped messages; when
\* nothing is dropped the result contains no notice.
C21_NoticeIffDropped ==
  trim.pc = "trimmed" =>
    LET notices == SelectSeq(trim.result, IsNotice)
    IN  /\ DroppedCount >= 0
        /\ DroppedCount = 0 => notices = <<>>
        /\ DroppedCount > 0 =>
             /\ Len(notices) = 1
             /\ IsNotice(trim.result[1])
             /\ trim.result[1].role = "user"
             /\ trim.result[1].content[3] = DroppedCount

\* C21 witness: two older messages were dropped and the notice says 2
C21_NoticeSaysTwo ==
  /\ trim.pc = "trimmed"
  /\ DroppedCount = 2
  /\ IsNotice(trim.result[1])
  /\ trim.result[1].content[3] = 2

\* sendResponse has split the response
Split == send.pc \notin {"none", "start"} /\ send.chunks # <<>>
Iterations == SplitIterations(send.response, send.maxLength, <<>>)
AllWhitespace(s) == \A i \in 1..Len(s) : IsWhitespace(s[i])
IsPrefix(p, s) == Len(p) <= Len(s) /\ SubSeq(s, 1, Len(p)) = p

\* C22: every chunk returned by splitMessage(text, limit) has length at
\* most limit, for every text and every limit >= 1.
C22_ChunksWithinLimit ==
  Split => \A i \in 1..Len(send.chunks) : Len(send.chunks[i]) <= send.maxLength

\* C22 witness: a text without a boundary in its first limit characters was
\* force-split into a chunk of exactly limit characters and a further chunk
C22_ForcedChunkIsFull ==
  /\ send.pc = "done"
  /\ send.maxLength >= 2
  /\ Len(send.chunks) >= 2
  /\ Len(send.chunks[1]) = send.maxLength
  /\ ~IsBoundary(send.chunks[1][send.maxLength])

\* the chunks, in order, are the text with nothing left out but whitespace
\* right after a cut: afterCut says that the text starts where a chunk was
\* cut from a longer text, so that whitespace there is the leading
\* whitespace of the continuation chunk
RECURSIVE Rebuilds(_, _, _, _)
Rebuilds(text, chunks, maxLength, afterCut) ==
  IF chunks = <<>> THEN text = <<>> \/ (afterCut /\ AllWhitespace(text))
  ELSE LET rest == IF afterCut THEN TrimStart(text) ELSE text
       IN  /\ IsPrefix(Head(chunks), rest)
           /\ Rebuilds(SubSeq(rest, Len(Head(chunks)) + 1, Len(rest)), Tail(chunks),
                       maxLength, Len(rest) > maxLength)

\* C23: splitMessage never drops or duplicates characters: the chunks in
\* order are the original text up to the trimmed leading whitespace of
\* continuation chunks; the only characters left out are whitespace at the
\* start of a continuation chunk, and no character appears twice.
C23_OnlyLeadingWhitespaceDropped ==
  Split => Rebuilds(send.response, send.chunks, send.maxLength, FALSE)

\* the boundaries among the characters from..maxLength of a text
BoundariesFrom(remaining, from, maxLength) ==
  {p \in from..maxLength : IsBoundary(remaining[p])}
\* every iteration over a text longer than the limit cut it right after the
\* last boundary among its characters from..limit, and at the limit if
\* there is none
CutsAtLastBoundaryFrom(from) ==
  \A i \in 1..Len(Iterations) :
    LET remaining == Iterations[i].remaining
        found == BoundariesFrom(remaining, from, send.maxLength)
    IN  Len(remaining) > send.maxLength =>
          /\ send.chunks[i] = SubSeq(remaining, 1,
                                     IF found = {} THEN send.maxLength ELSE Max(found))
          /\ found = {} => Len(send.chunks[i]) = send.maxLength

\* C24 (as stated): when the remaining text is longer than limit,
\* splitMessage cuts right after the last space or newline among its first
\* limit characters; only when there is none does it force-split at exactly
\* limit characters.
C24_CutsAtLastBoundary == Split => CutsAtLastBoundaryFrom(1)

\* C24 (amended): the boundary is looked for among the characters 2..limit
\* of the remaining text, the first character not being looked at; the
\* chunk ends right after the last of them, and only when there is none is
\* the text force-split at exactly limit characters.
C24_CutsAtLastBoundaryAfterFirst == Split => CutsAtLastBoundaryFrom(2)

\* C24 witness: the text had two boundaries before the limit and was cut
\* after the second, and a later chunk was sent
C24_CutAfterSecondBoundary ==
  /\ send.pc = "done"
  /\ Len(send.chunks) >= 2
  /\ Cardinality(BoundariesFrom(send.response, 2, send.maxLength)) = 2
  /\ \E p \in 2..(send.maxLength - 1) :
       /\ IsBoundary(send.response[p])
       /\ Len(send.chunks[1]) > p

\* what sendResponse is to deliver: the response as one reply, or the first
\* chunk as a reply and the next ones as messages to the channel
Deliveries ==
  IF Len(send.response) <= send.maxLength
  THEN <<[via |-> "reply", content |-> send.response]>>
  ELSE [i \in 1..Len(send.chunks) |->
          [via |-> IF i = 1 THEN "reply" ELSE "send", content |-> send.chunks[i]]]

\* C25: sendResponse delivers a response that fits the limit as a single
\* reply to the triggering message; otherwise chunk 0 as a reply and then
\* chunks 1..n-1 as messages to the channel, in increasing index order,
\* each once and chunk i+1 only after chunk i.
C25_ChunksSentInOrder ==
  send.pc \in {"reply", "send", "done", "threw"} =>
    /\ IsPrefix(send.sent, Deliveries)
    /\ send.pc = "done" => send.sent = Deliveries
    /\ send.pc = "send" => Len(send.sent) < Len(Deliveries)

\* C25 witness: three chunks were delivered, one reply and two sends
C25_ThreeChunksDelivered ==
  /\ send.pc = "done"
  /\ Len(send.sent) = 3
  /\ send.sent[1].via = "reply"
  /\ send.sent[2] = [via |-> "send", content |-> send.chunks[2]]
  /\ send.sent[3] = [via |-> "send", content |-> send.chunks[3]]

\* C26 (as stated; refuted by the code): when fetching the channel history
\* fails, getMessageContext returns an empty context and the turn goes on:
\* in mention mode and in follow-up mode alike, the next thing the turn does
\* with the empty history is a model call.
C26_EmptyContextReachesModel ==
  [][\A t \in Turns :
       (turns[t].pc = "prepare" /\ turns[t].emptyContext /\ turns'[t] # turns[t])
         => turns'[t].pc = "model"]_vars

\* the turn of a message that a mention or shouldRespond let in
Started(t) == InFlight(turns[t])
\* the turn has ended in a reply or in the NO_RESPONSE decline
EndedWithResponse(t) ==
  /\ turns[t].pc = "done"
  /\ \/ turns[t].outcome = "answered" /\ turns[t].delivered >= 1
     \/ turns[t].outcome = "apologized" /\ turns[t].sentAny
     \/ turns[t].outcome = "declined" /\ ~turns[t].isMentioned

\* C27: every message that starts a turn (a mention, or a non-mention
\* message accepted by shouldRespond on a monitored channel) eventually
\* ends, the platform accepting the sends, in a reply or in the NO_RESPONSE
\* decline; a failure inside the turn ends in the apology, never in silence.
C27_TurnEndsInReplyOrDecline ==
  /\ \A t \in Turns : Started(t) ~> EndedWithResponse(t)
  /\ [](\A t \in Turns :
          (turns[t].pc = "done" /\ turns[t].outcome \notin {"own", "unmonitored", "rejected"})
            => EndedWithResponse(t))

\* C27 witness: a turn that had called the model ended in the apology
C27_FailureApologized ==
  \E t \in Turns :
    /\ turns[t].pc = "done" /\ turns[t].outcome = "apologized"
    /\ turns[t].modelCalls >= 1

\* C28 (as stated; refuted by the code): followUpCount counts the responses
\* sent without a mention since the activation: a mention turn does not
\* increment it and leaves it at 0 when its reply is sent; a follow-up turn
\* has incremented it (once) exactly if it has sent a response, however many
\* tool rounds it used.
C28_CountsResponsesSent ==
  \A t \in Turns :
    turns[t].pc = "done" =>
      IF turns[t].isMentioned
      THEN /\ ~turns[t].incremented
           /\ turns[t].outcome = "answered" => Cx(t).followUpCount = 0
      ELSE turns[t].incremented <=> turns[t].delivered >= 1

\* a mention starts being handled in this step
MentionArrives == \E t \in Turns : Handled(t) /\ turns'[t].isMentioned

\* C29: the idle timeout is measured from the activation and does not
\* slide: a deactivation is scheduled only by a mention, for the time of
\* the mention plus followUpTimeoutMs, and nothing but its callback takes
\* it away (incrementFollowUpCount leaves the timers alone); a monitored
\* channel has such a deactivation pending and not yet past; and every
\* monitored channel becomes inactive when no further mention arrives.
C29_TimeoutFromActivation ==
  /\ [][ /\ timers' # timers =>
              \/ timers # <<>> /\ timers' = Tail(timers)
              \/ /\ MentionArrives
                 /\ \E c \in Channels :
                      timers' = Append(timers, [channelId |-> c,
                                                due |-> now + FollowUpTimeoutTicks])
         /\ \A c \in Channels :
              channelContexts'[c].followUpCount > channelContexts[c].followUpCount
                => timers' = timers ]_vars
  /\ [](\A c \in Channels :
          channelContexts[c].isMonitoring =>
            \E i \in 1..Len(timers) : timers[i].channelId = c /\ timers[i].due >= now)
  /\ \A c \in Channels : channelContexts[c].isMonitoring ~> ~channelContexts[c].isMonitoring

\* C29 witness: the channel was deactivated by the timer of its activation
\* (it is below the follow-up cap) after two follow-up responses
C29_ExpiredAfterFollowUps ==
  /\ channelContexts["c1"].exists
  /\ ~channelContexts["c1"].isMonitoring
  /\ channelContexts["c1"].followUpCount = 2
  /\ timers = <<>>
  /\ now = FollowUpTimeoutTicks

\* no two consecutive messages have the same role
Alternating(messages) ==
  \A i \in 1..(Len(messages) - 1) : messages[i].role # messages[i + 1].role

\* C30 (as stated; refuted by the code): every message list passed to the
\* model API is strictly role-alternating; here, the list built from the
\* channel history, trimmed or not.
C30_ContextAlternates ==
  trim.pc = "passed" => Alternating(trim.result)

\* call k of fetchUrl starts in this step, for url
FetchStarts(k, url) ==
  fetcher.calls[k].pc = "idle" /\ fetcher'.calls[k].pc # "idle" /\ fetcher'.calls[k].url = url
\* call k of fetchUrl, which had issued its request, returns in this step
FetchEnds(k) == fetcher.calls[k].pc = "fetching" /\ fetcher'.calls[k].pc = "returned"

\* C31: the URL fetcher caches successful fetches for 15 minutes keyed by
\* URL: a fetchUrl(u) that starts less than 15 minutes after the time t at
\* which the content of u was stored returns that content without a
\* request; one that starts at or after t + 15 minutes (or with nothing
\* stored) issues a request; a successful fetch stores its content under
\* its URL with the time of now; a failed fetch stores nothing and leaves
\* every entry as it is.
C31_CachedForFifteenMinutes ==
  [][ /\ \A k \in Fetches, url \in Urls :
           FetchStarts(k, url) =>
             LET entry == fetcher.urlCache[url]
             IN  /\ fetcher'.urlCache = fetcher.urlCache
                 /\ IF entry.exists /\ now < entry.timestamp + CacheTimeoutTicks
                    THEN /\ fetcher'.calls[k].pc = "returned"
                         /\ ~fetcher'.calls[k].requested
                         /\ fetcher'.calls[k].content = entry.content
                    ELSE /\ fetcher'.calls[k].pc = "fetching"
                         /\ fetcher'.calls[k].requested
      /\ \A k \in Fetches :
           FetchEnds(k) =>
             LET url == fetcher.calls[k].url
             IN  IF fetcher'.calls[k].ok
                 THEN fetcher'.urlCache =
                        [fetcher.urlCache EXCEPT
                           ![url] = [exists |-> TRUE, content |-> fetcher'.calls[k].content,
                                     timestamp |-> now]]
                 ELSE fetcher'.urlCache = fetcher.urlCache
      /\ (\A k \in Fetches : ~FetchEnds(k)) => fetcher'.urlCache = fetcher.urlCache ]_vars

\* C31 witness: with a valid entry of the other URL in the cache, a call
\* returned the content stored one tick earlier without a request
C31_ServedFromCache ==
  \E k \in Fetches :
    /\ fetcher.calls[k].pc = "returned"
    /\ ~fetcher.calls[k].requested
    /\ fetcher.calls[k].url = "u1"
    /\ fetcher.urlCache["u1"].timestamp = now - 1
    /\ fetcher.urlCache["u2"].exists

\* a message starts being handled by invocation t in this step
Arrives(t) == turns[t].pc = "idle" /\ turns'[t].pc # "idle"

\* C32: a message that is not a mention and arrives on a channel that is
\* not monitored, and any message written by the bot itself, causes no
\* model call, no message sent and no change of any channel's state: the
\* invocation returns at once.
C32_IgnoredMessageHasNoEffect ==
  [][\A t \in Turns :
       LET c == turns'[t].channel
       IN  ( /\ Arrives(t)
             /\ \/ turns'[t].fromBot
                \/ /\ ~turns'[t].isMentioned
                   /\ ~(channelContexts[c].exists /\ channelContexts[c].isMonitoring) )
           => /\ turns'[t].pc = "done"
              /\ turns'[t].modelCalls = 0
              /\ ~turns'[t].sentAny /\ turns'[t].delivered = 0
              /\ channelContexts' = channelContexts
              /\ timers' = timers ]_vars

\* C32 witness: the bot's own message, mentioning the bot, arrived on a
\* monitored channel with a follow-up count and was ignored
C32_OwnMentionIgnored ==
  \E t \in Turns :
    /\ turns[t].pc = "done" /\ turns[t].fromBot /\ turns[t].isMentioned
    /\ Cx(t).isMonitoring /\ Cx(t).followUpCount >= 1

\* shouldRespond(c) is called in this step
ShouldRespondCalled(c) ==
  /\ managerCall' # managerCall
  /\ managerCall'.method = "shouldRespond"
  /\ managerCall'.channelId = c

\* C33: shouldRespond(c) returns true only if the channel is monitored and
\* its followUpCount is below followUpMessageCount; it changes state in one
\* case only: a monitored channel whose count has been reached gets
\* isMonitoring = false; otherwise (it returns true, or the channel is
\* unknown or inactive) the channel is unchanged; followUpCount never
\* changes.
C33_ShouldRespondFrame ==
  [][\A c \in Channels :
       ShouldRespondCalled(c) =>
         LET before == channelContexts[c]
             reached == /\ before.exists /\ before.isMonitoring
                        /\ before.followUpCount >= FollowUpMessageCount
         IN  /\ managerCall'.result =>
                  /\ before.exists /\ before.isMonitoring
                  /\ before.followUpCount < FollowUpMessageCount
             /\ channelContexts'[c] =
                  IF reached THEN [before EXCEPT !.isMonitoring = FALSE] ELSE before
             /\ channelContexts'[c].followUpCount = before.followUpCount
             /\ timers' = timers ]_vars

\* C33 witness: shouldRespond returned false on a channel at the cap and
\* the channel is no longer monitored, its count still at the cap
C33_DeactivatedAtCap ==
  /\ managerCall.method = "shouldRespond"
  /\ ~managerCall.result
  /\ channelContexts["c1"].exists
  /\ managerCall.channelId = "c1"
  /\ ~channelContexts["c1"].isMonitoring
  /\ channelContexts["c1"].followUpCount = FollowUpMessageCount
  /\ PendingFor("c1") # <<>>

\* C34: conversation state is per channel: every operation on a channel
\* (startMonitoring, stopMonitoring, shouldRespond, incrementFollowUpCount,
\* resetFollowUpCount, the expiry of its timer) leaves followUpCount and
\* isMonitoring of every other channel unchanged.
C34_OtherChannelsUnchanged ==
  [][\A b \in Channels :
       ( \/ channelContexts'[b].followUpCount # channelContexts[b].followUpCount
         \/ channelContexts'[b].isMonitoring # channelContexts[b].isMonitoring )
       => \/ managerCall' # managerCall /\ managerCall'.channelId = b
          \/ /\ managerCall' = managerCall
             /\ timers # <<>> /\ timers' = Tail(timers)
             /\ Head(timers).channelId = b ]_vars

\* C34 witness: after a reset on c1, c1 is monitored with count 0 while
\* c2 is monitored with count 2
C34_ChannelsDiffer ==
  /\ managerCall.method = "resetFollowUpCount" /\ managerCall.channelId = "c1"
  /\ channelContexts["c1"].isMonitoring /\ channelContexts["c1"].followUpCount = 0
  /\ channelContexts["c2"].isMonitoring /\ channelContexts["c2"].followUpCount = 2

\* C35 (as stated; refuted by the code): for every tool-call block of a
\* round, whatever its name, the user message appended for the round holds
\* exactly one tool_result block with the id of that block, and as many
\* tool_result blocks as the round has tool calls.
C35_OneResultPerToolCall ==
  \A t \in Turns :
    turns[t].pc = "thinking" =>
      LET calls == turns[t].response.toolCalls
          results == turns[t].appended[Len(turns[t].appended)].content
      IN  /\ Len(results) = Len(calls)
          /\ \A i \in 1..Len(calls) :
               Cardinality({j \in 1..Len(results) :
                              results[j].tool_use_id = calls[i].id}) = 1

\* C36 (as stated; refuted by the code): in a follow-up turn no text that
\* contains the sentinel NO_RESPONSE is handed to sendResponse, be it the
\* first reply of the model or the final answer after tool rounds.
C36_SentinelNeverSent ==
  \A t \in Turns :
    (turns[t].pc = "send" /\ IsFollowUp(turns[t]))
      => ~Includes(turns[t].answer, Sentinel)

\* a mention on channel c starts being handled in this step
MentionArrivesOn(c) ==
  \E t \in Turns : Handled(t) /\ turns'[t].isMentioned /\ turns'[t].channel = c

\* C37: isMonitoring of a channel goes from false (or absent) to true only
\* when a mention is handled: once deactivated by the timeout or by the
\* follow-up cap, no non-mention message, follow-up response or timer
\* expiry reactivates the channel; and its entry is never removed.
C37_OnlyMentionActivates ==
  [][\A c \in Channels :
       /\ ( /\ ~IsMonitoringChannel(channelContexts, c)
            /\ IsMonitoringChannel(channelContexts', c) ) => MentionArrivesOn(c)
       /\ channelContexts[c].exists => channelContexts'[c].exists ]_vars

\* C37 witness: a follow-up turn incremented the count of a channel that
\* the timeout had deactivated in the meantime, and the channel is still
\* inactive when the turn has ended
C37_StaysInactiveAfterResponse ==
  \E t \in Turns :
    /\ turns[t].pc = "done" /\ turns[t].outcome = "answered"
    /\ ~turns[t].isMentioned /\ turns[t].incremented
    /\ Cx(t).exists /\ ~Cx(t).isMonitoring
    /\ Cx(t).followUpCount < FollowUpMessageCount
    /\ PendingFor(turns[t].channel) = <<>>

\* the result of the call without the notice message put in front of it
ResultWithoutNotice == SelectSeq(trim.result, LAMBDA m : ~IsNotice(m))

\* C38: if the estimated token cost of the last k messages alone is within
\* the budget, then the estimated token cost of the result of
\* trimMessagesToTokenLimit(messages, budget, k), not counting the notice
\* message, is within the budget.
C38_ResultWithinBudget ==
  (/\ trim.pc = "trimmed"
   /\ CountMessageTokens(LastOf(trim.messages, KeptTail)) <= trim.maxTokens)
    => CountMessageTokens(ResultWithoutNotice) <= trim.maxTokens

\* C38 witness: the last k messages fit, an older message was kept and one
\* was dropped, and only the notice takes the result over the budget
C38_OnlyNoticeOverBudget ==
  /\ trim.pc = "trimmed"
  /\ CountMessageTokens(LastOf(trim.messages, KeptTail)) <= trim.maxTokens
  /\ DroppedCount >= 1
  /\ Len(ResultWithoutNotice) > trim.preserveLatest
  /\ CountMessageTokens(ResultWithoutNotice) <= trim.maxTokens
  /\ CountMessageTokens(trim.result) > trim.maxTokens

\* C39: splitMessage terminates for every text and every limit >= 1: the
\* remaining text is strictly shorter in each iteration than in the one
\* before, so there are at most as many iterations as characters; and every
\* chunk it returns is non-empty.
C39_ShrinksAndChunksNonEmpty ==
  send.pc \notin {"none", "start"} =>
    /\ Len(Iterations) <= Len(send.response)
    /\ \A i \in 1..Len(Iterations) :
         /\ Iterations[i].chunk # <<>>
         /\ i > 1 => Len(Iterations[i].remaining) < Len(Iterations[i - 1].remaining)
    /\ \A i \in 1..Len(send.chunks) : send.chunks[i] # <<>>
    /\ Split => send.chunks = SplitMessage(send.response, send.maxLength)

\* C39 witness: with limit 1 a text of at least three characters was split
\* into one chunk per character, the most iterations a text can take
C39_OneCharacterPerChunk ==
  /\ Split
  /\ send.maxLength = 1
  /\ Len(send.response) >= 3
  /\ Len(send.chunks) = Len(send.response)

====
